---- MODULE Spec2Model ----
(***************************************************************************)
(* A model of the airpods-tui device-session engine.                       *)
(*                                                                         *)
(* Three independent subsystems are modelled, each with its own            *)
(* specification over the shared variable tuple:                           *)
(*   SpecLE   the BLE scanner and the auto-connect arbiter                 *)
(*            (src/src/bluetooth/le.rs)                                    *)
(*   SpecATT  the ATT client (src/src/bluetooth/att.rs)                    *)
(*   Spec     the media / ownership coordinator of one AACP session        *)
(*            (src/src/media_controller.rs, src/src/devices/airpods.rs)    *)
(*   SpecCA   the conversational-awareness handler of the coordinator      *)
(***************************************************************************)
EXTENDS Integers, Sequences, FiniteSets, TLC

(***************************************************************************)
(* Bounds of the model.                                                    *)
(***************************************************************************)
\* property-stream tasks the monitor loop may spawn
MaxTasks == 2
\* advertisement frames the environment delivers
MaxAds == 2
\* ATT requests issued in one run
MaxReq == 3
\* control commands waiting in the session's command channel
MaxQueue == 1
\* packets kept in the log of packets handed to the device
MaxWire == 5
\* Status-1 events counted per conversation.
MaxOnes == 2
\* Telemetry events the peer raises during one handshake.
MaxEvents == 2
\* Sessions the supervisor builds.
MaxSessions == 3
\* DeviceConnected / DeviceDisconnected events waiting for the app.
MaxAppQ == 2
\* Commands the front end queues for the command dispatcher.
MaxCmds == 2
\* Events held in the IPC snapshot before the model stops adding to it.
MaxSnap == 3
\* Events broadcast to the IPC clients in one run.
MaxBroadcast == 4
\* Slots of the broadcast channel (256 in IpcServer::new, scaled down).
BroadcastCap == 2
\* Bytes of a cipher block and of a key (16 in utils.rs, scaled down).
BlockLen == 4

VARIABLES
    \* ---- BLE scanner / auto-connect arbiter (le.rs) ----
    verified_macs,    \* le.rs:60  addresses whose RPA matched a stored IRK
    failed_macs,      \* le.rs:61  addresses that matched no IRK
    connecting_macs,  \* le.rs:62  the arbiter's single-flight set
    cmLock,           \* holder of the connecting_macs mutex (0 = free)
    nTasks,           \* property-stream tasks spawned so far
    taskAddr,         \* task -> address whose events it consumes
    taskPc,           \* task -> "idle" | "lock" | "connecting" | "exited"
    taskQ,            \* task -> frames queued in its event stream
    autoConnect,      \* the autoConnect preference on disk (le.rs:179)
    connectCalls,     \* invocations of `bluetoothctl connect`
    batterySent,      \* BatteryInfo events sent on app_tx
    adsDelivered,     \* frames delivered by the environment
    connectDone,      \* some connect invocation has completed
    lateAd,           \* a state-0 frame was delivered after a connect completed
    prefEverOff,      \* the preference was disabled at some point
    \* ---- ATT client (att.rs) ----
    attSender,        \* att.rs:52  state.sender is Some
    sendChan,         \* att.rs:136 PDUs accepted by the send channel
    peerIn,           \* request PDUs the peer has received
    wireIn,           \* packets from the peer not yet read by recv_thread
    respChan,         \* att.rs:75  the response channel (response_tx/response_rx)
    rxLock,           \* holder of the response_rx mutex (0 = free)
    callPc,           \* caller -> "idle" | "sent" | "waiting"
    callReq,          \* caller -> id of the request it issued
    nReq,             \* requests issued so far
    answered,         \* request ids whose caller finished (response or timeout)
    lastResult,       \* caller -> outcome of its last finished call
    notified,         \* notifications fanned out to listeners
    overlapped,       \* two requests have been outstanding at the same time
    \* ---- media / ownership coordinator (media_controller.rs, airpods.rs) ----
    playerStatus,     \* MPRIS service -> PlaybackStatus
    cardProfile,      \* active profile of the device's audio card
    availProfiles,    \* profiles the audio card offers
    earStatus,        \* the session's ear_detection_status [L, R]
    connDevices,      \* the session's connected_devices
    is_playing,               \* media_controller.rs:44
    paused_by_app_services,   \* media_controller.rs:45
    device_index,             \* media_controller.rs:46 (TRUE = Some)
    cached_a2dp_profile,      \* media_controller.rs:47
    old_in_ear_data,          \* media_controller.rs:48
    stateDead,        \* the coordinator state mutex is held by a task that waits for it
    pollPc,           \* playback poll loop: "sleep" | "sampled" | "activate" |
                      \* "mi" | "sr" | "hj" | "hung"
    pollSample,       \* the value check_if_playing returned
    pollTodo,         \* connected devices the takeover has still to visit
    cmdq,             \* airpods.rs:33 the command channel (command_tx/command_rx)
    wire,             \* packets accepted by the session during the takeover in progress
    io,               \* MPRIS and audio-card calls issued by the last step
    ruleIo,           \* those of them issued by the sorted-change rule
    lastStep,         \* which handler the last step ran
    \* ---- conversational awareness (media_controller.rs:1000) ----
    sinkVolume,               \* raw volume of the device's sink (65536 = 100 %)
    conv_original_volume,     \* media_controller.rs:53 (-1 = None)
    conv_conversation_started,\* media_controller.rs:54
    convTrace,        \* statuses handled since the volume was last set from outside
    convBase,         \* the sink volume when that sequence began
    convFirst,        \* the volume the first status 1 of the latest conversation measured
    convOnes,         \* status-1 events handled in the latest conversation (capped)
    \* ---- session start-up (airpods.rs AirPodsDevice::new) ----
    hsPc,             \* position of AirPodsDevice::new: the next send or wait
    hsProduct,        \* product_id argument (0 before the call)
    hsLog,            \* handshake send calls so far: [kind, waited]
    hsWaited,         \* a bounded wait has completed since the last send
    hsSent,           \* packets the session has accepted for sending
    hsRecv,           \* responses received from the peer
    hsSubscribed,     \* airpods.rs:35 the event channel is registered
    evq,              \* airpods.rs:32 events waiting on the event channel
    hsRaised,         \* BatteryInfo events raised on the event channel
    appBattery,       \* BatteryInfo events forwarded to the app
    \* ---- session supervisor and registry (main.rs) ----
    osConnected,      \* BlueZ's Connected property of each device
    device_managers,  \* main.rs:130 the registry: device -> session id (0 = no entry)
    spawnedInit,      \* main.rs:468 spawned init tasks that have not built their session
    builtInit,        \* init tasks holding a built session, not yet registered
    nSessions,        \* sessions built so far
    sessionOwner,     \* the device of each session whose tasks are running
    appQ,             \* main.rs:127 DeviceConnected / DeviceDisconnected events for the app
    appDevices,       \* tui/app.rs App::devices: device -> display name ("" = absent)
    routedTo,         \* the session the command dispatcher last sent a command to
    \* ---- command dispatcher (main.rs) ----
    cmdChan,          \* main.rs:128 (mac, DeviceCommand) pairs waiting on cmd_rx
    attEntry,         \* main.rs:426 the registry holds an ATT-only entry for the Nothing device
    dispatcherPc,     \* "recv" while the dispatcher task loops, "ended" once it returned
    cmdQueued,        \* commands queued so far
    cmdHandled,       \* commands the dispatcher has taken from the channel
    cmdLast,          \* the last command taken, with what the dispatcher did with it
    \* ---- IPC snapshot (ipc.rs) ----
    snapshot,         \* ipc.rs:40 the Vec<AppEvent> replayed to new clients
    snapDone,         \* type and mac of the event update_snapshot processed last
    \* ---- IPC server and one client (ipc.rs) ----
    ipcPc,            \* "listening" | "replay" | "stream" | "writer_down" | "closed"
    clSnapIdx,        \* snapshot events written to the client by the replay loop
    bcNext,           \* events sent on broadcast_tx so far
    rxPos,            \* the serial the client's broadcast receiver reads next
    acceptedAt,       \* events that had been broadcast when the client subscribed
    clStream,         \* serials of the streamed events written to the client
    clSkipped,        \* events the receiver reported as lagged (logged)
    \* ---- RPA verification (le.rs, utils.rs) ----
    rpaAddr,          \* the address string of the device found, as hex-digit pairs
    rpaIrk,           \* the stored IRK it is checked against
    rpaDone,          \* verify_rpa has returned for this address
    rpaResult,        \* what verify_rpa returned
    \* ---- ATT receive task (att.rs:225) ----
    recvPanicked,     \* recv_thread has panicked on an index out of bounds
    \* ---- the registry's RwLock (main.rs:421, 470, 526) ----
    regReaders,       \* read guards held
    regWriter,        \* a write guard is held
    nothingPc,        \* Nothing registration task: "idle" | "connecting" | "done"
    \* ---- the session's two handler tasks (airpods.rs:156, 175) ----
    mxChan,           \* task -> values queued on the channel it receives from
    mxSent,           \* task -> values delivered to it so far
    mxPc,             \* task -> "recv" | "lock" | "run"
    mxEv,             \* task -> the value it is handling ("" = none)
    mxLeft,           \* task -> awaited calls of the handler still to run
    mxLock,           \* holder of the Mutex<MediaController> ("free" or a task)
    \* ---- the front end's device list (tui/app.rs:106-108) ----
    devices,          \* mac -> name of the device's state ("absent" = no entry)
    device_order,     \* the MACs in the order of the device list
    appLink,          \* mac -> last link event processed: "none" | "up" | "down"
    \* ---- one settings row of the front end (tui/app.rs:150-245) ----
    setPc,            \* "idle" | "shown" | "sent" | "echoed" | "panicked"
    setCmd,           \* the row's control command ("" = none)
    setValue,         \* a slider's value in the device state
    setOn,            \* a toggle's value in the device state
    setChoice,        \* what the user selected with the toggle
    setSent,          \* the byte handed to send_command (-1 = none)
    setOverflow       \* value + 5 did not fit the u8

varsLE == <<verified_macs, failed_macs, connecting_macs, cmLock, nTasks, taskAddr,
            taskPc, taskQ, autoConnect, connectCalls, batterySent, adsDelivered,
            connectDone, lateAd, prefEverOff>>

varsATT == <<attSender, sendChan, peerIn, wireIn, respChan, rxLock, callPc, callReq,
             nReq, answered, lastResult, notified, overlapped>>

varsMC == <<playerStatus, cardProfile, availProfiles, earStatus, connDevices,
            is_playing, paused_by_app_services, device_index, cached_a2dp_profile,
            old_in_ear_data, stateDead,
            pollPc, pollSample, pollTodo, cmdq, wire, io,
            ruleIo, lastStep>>

varsCA == <<sinkVolume, conv_original_volume, conv_conversation_started, convTrace,
            convBase, convFirst, convOnes>>

varsHS == <<hsPc, hsProduct, hsLog, hsWaited, hsSent, hsRecv, hsSubscribed, evq,
            hsRaised, appBattery>>

varsREG == <<osConnected, device_managers, spawnedInit, builtInit, nSessions,
             sessionOwner, appQ, appDevices, routedTo>>

varsCMD == <<cmdChan, attEntry, dispatcherPc, cmdQueued, cmdHandled, cmdLast>>

varsSNAP == <<snapshot, snapDone>>

varsIPC == <<ipcPc, clSnapIdx, bcNext, rxPos, acceptedAt, clStream, clSkipped>>

varsRPA == <<rpaAddr, rpaIrk, rpaDone, rpaResult>>

varsPANIC == <<recvPanicked>>

varsLOCK == <<regReaders, regWriter, nothingPc>>

varsMX == <<mxChan, mxSent, mxPc, mxEv, mxLeft, mxLock>>

varsAPP == <<devices, device_order, appLink>>

varsKEY == <<setPc, setCmd, setValue, setOn, setChoice, setSent, setOverflow>>

varsExt == <<varsPANIC, varsLOCK, varsMX, varsAPP, varsKEY>>

varsRest == <<varsCMD, varsSNAP, varsIPC, varsRPA, varsExt>>

vars == <<varsLE, varsATT, varsMC, varsCA, varsHS, varsREG, varsRest>>

(***************************************************************************)
(* BLE scanner and auto-connect arbiter                                    *)
(***************************************************************************)
\* Addresses seen by the monitor: one resolves against the stored IRK, one
\* does not.
Addrs == {"rpa_ours", "rpa_other"}

\* The outcome of the IRK loop of the monitor for an address.
Resolves(a) == a = "rpa_ours"

Tasks == 1..MaxTasks

\* A manufacturer-data frame: whether it carries Apple data longer than 20
\* bytes, and byte 10 (0 = not connected to any host).
Frames == [len_ok : BOOLEAN, conn : {0, 1}]

ConnectOutcomes == {"success", "failure", "exec_error"}

InitLE ==
    /\ verified_macs = {}
    /\ failed_macs = {}
    /\ connecting_macs = {}
    /\ cmLock = 0
    /\ nTasks = 0
    /\ taskAddr = [t \in Tasks |-> "none"]
    /\ taskPc = [t \in Tasks |-> "unspawned"]
    /\ taskQ = [t \in Tasks |-> <<>>]
    /\ autoConnect = TRUE
    /\ connectCalls = 0
    /\ batterySent = 0
    /\ adsDelivered = 0
    /\ connectDone = FALSE
    /\ lateAd = FALSE
    /\ prefEverOff = FALSE

\* tokio::spawn of the property-stream task for address a
SpawnStream(a) ==
    /\ nTasks' = nTasks + 1
    /\ taskAddr' = [taskAddr EXCEPT ![nTasks + 1] = a]
    /\ taskPc' = [taskPc EXCEPT ![nTasks + 1] = "idle"]

\* One iteration of the monitor loop for MonitorEvent::DeviceFound.
LeDeviceFound(a) ==
    /\ nTasks < MaxTasks
    /\ IF a \in verified_macs
         THEN SpawnStream(a) /\ UNCHANGED <<verified_macs, failed_macs>>
         ELSE IF a \in failed_macs
           THEN UNCHANGED <<verified_macs, failed_macs, nTasks, taskAddr, taskPc>>
           ELSE IF Resolves(a)
             THEN /\ verified_macs' = verified_macs \cup {a}
                  /\ SpawnStream(a)
                  /\ UNCHANGED failed_macs
             ELSE /\ failed_macs' = failed_macs \cup {a}
                  /\ UNCHANGED <<verified_macs, nTasks, taskAddr, taskPc>>
    /\ UNCHANGED <<connecting_macs, cmLock, taskQ, autoConnect, connectCalls,
                   batterySent, adsDelivered, connectDone, lateAd, prefEverOff>>

\* The device at address a advertises: the ManufacturerData property change
\* is delivered to every live stream of that device.
LeAdvertise(a, f) ==
    /\ adsDelivered < MaxAds
    /\ \E t \in Tasks : taskAddr[t] = a /\ taskPc[t] # "exited"
    /\ adsDelivered' = adsDelivered + 1
    /\ taskQ' = [t \in Tasks |->
                   IF taskAddr[t] = a /\ taskPc[t] # "exited"
                     THEN Append(taskQ[t], f) ELSE taskQ[t]]
    /\ lateAd' = (lateAd \/ (f.conn = 0 /\ f.len_ok /\ connectDone))
    /\ UNCHANGED <<verified_macs, failed_macs, connecting_macs, cmLock, nTasks,
                   taskAddr, taskPc, autoConnect, connectCalls, batterySent,
                   connectDone, prefEverOff>>

\* The user edits the preferences file.
LeSetPreference(b) ==
    /\ autoConnect # b
    /\ autoConnect' = b
    /\ prefEverOff' = (prefEverOff \/ ~b)
    /\ UNCHANGED <<verified_macs, failed_macs, connecting_macs, cmLock, nTasks,
                   taskAddr, taskPc, taskQ, connectCalls, batterySent,
                   adsDelivered, connectDone, lateAd>>

\* The stream task takes the next property change.  A frame that is too short
\* is ignored; a state-0 frame with auto-connect enabled goes on to take the
\* connecting_macs mutex; every other frame is decoded and reported.
LeTaskRecv(t) ==
    /\ taskPc[t] = "idle"
    /\ taskQ[t] # <<>>
    /\ LET f == Head(taskQ[t]) IN
         /\ taskQ' = [taskQ EXCEPT ![t] = Tail(@)]
         /\ IF ~f.len_ok
              THEN UNCHANGED <<taskPc, batterySent>>
              ELSE IF f.conn = 0 /\ autoConnect
                THEN /\ taskPc' = [taskPc EXCEPT ![t] = "lock"]
                     /\ UNCHANGED batterySent
                ELSE /\ batterySent' = batterySent + 1
                     /\ UNCHANGED taskPc
    /\ UNCHANGED <<verified_macs, failed_macs, connecting_macs, cmLock, nTasks,
                   taskAddr, autoConnect, connectCalls, adsDelivered,
                   connectDone, lateAd, prefEverOff>>

\* With the mutex: an address already in the set makes the task return;
\* otherwise the address is inserted and `bluetoothctl connect` is started,
\* the guard staying alive across the await.
LeTaskLock(t) ==
    /\ taskPc[t] = "lock"
    /\ cmLock = 0
    /\ IF taskAddr[t] \in connecting_macs
         THEN /\ taskPc' = [taskPc EXCEPT ![t] = "exited"]
              /\ taskQ' = [taskQ EXCEPT ![t] = <<>>]
              /\ UNCHANGED <<connecting_macs, cmLock, connectCalls>>
         ELSE /\ connecting_macs' = connecting_macs \cup {taskAddr[t]}
              /\ cmLock' = t
              /\ connectCalls' = connectCalls + 1
              /\ taskPc' = [taskPc EXCEPT ![t] = "connecting"]
              /\ UNCHANGED taskQ
    /\ UNCHANGED <<verified_macs, failed_macs, nTasks, taskAddr, autoConnect,
                   batterySent, adsDelivered, connectDone, lateAd, prefEverOff>>

\* What the completion of the connect command does to connecting_macs.
AfterConnect(set, a, outcome) ==
    IF outcome = "success" THEN set \ {a} ELSE set

\* The connect command completes; the guard is dropped at the end of the
\* auto-connect block and the frame is then decoded and reported.
LeConnectDone(t, outcome) ==
    /\ taskPc[t] = "connecting"
    /\ cmLock = t
    /\ connecting_macs' = AfterConnect(connecting_macs, taskAddr[t], outcome)
    /\ cmLock' = 0
    /\ connectDone' = TRUE
    /\ batterySent' = batterySent + 1
    /\ taskPc' = [taskPc EXCEPT ![t] = "idle"]
    /\ UNCHANGED <<verified_macs, failed_macs, nTasks, taskAddr, taskQ,
                   autoConnect, connectCalls, adsDelivered, lateAd, prefEverOff>>

(***************************************************************************)
(* ATT client                                                              *)
(***************************************************************************)
Callers == {1, 2}

InitATT ==
    /\ attSender = TRUE
    /\ sendChan = <<>>
    /\ peerIn = <<>>
    /\ wireIn = <<>>
    /\ respChan = <<>>
    /\ rxLock = 0
    /\ callPc = [c \in Callers |-> "idle"]
    /\ callReq = [c \in Callers |-> 0]
    /\ nReq = 0
    /\ answered = {}
    /\ lastResult = [c \in Callers |-> [kind |-> "none", req |-> 0, of |-> 0]]
    /\ notified = 0
    /\ overlapped = FALSE

\* ATTManager::send_packet, called first by read / write / write_cccd: under
\* the state mutex, hand the PDU to the send channel, or fail when the
\* sender has been cleared.
send_packet(c) ==
    IF attSender
      THEN /\ nReq' = nReq + 1
           /\ sendChan' = Append(sendChan, nReq + 1)
           /\ callReq' = [callReq EXCEPT ![c] = nReq + 1]
           /\ callPc' = [callPc EXCEPT ![c] = "sent"]
           /\ UNCHANGED <<lastResult, answered>>
      ELSE /\ nReq' = nReq + 1
           /\ lastResult' = [lastResult EXCEPT
                               ![c] = [kind |-> "not_connected", req |-> nReq + 1, of |-> 0]]
           /\ answered' = answered \cup {nReq + 1}
           /\ UNCHANGED <<sendChan, callReq, callPc>>

\* A caller starts read(handle) or write(handle, value).
AttCall(c) ==
    /\ callPc[c] = "idle"
    /\ nReq < MaxReq
    /\ send_packet(c)
    /\ overlapped' = (overlapped \/ (attSender /\ (1..nReq) \ answered # {}))
    /\ UNCHANGED <<attSender, peerIn, wireIn, respChan, rxLock, notified>>

\* read_response: take the response_rx mutex.
AttLockRx(c) ==
    /\ callPc[c] = "sent"
    /\ rxLock = 0
    /\ rxLock' = c
    /\ callPc' = [callPc EXCEPT ![c] = "waiting"]
    /\ UNCHANGED <<overlapped, attSender, sendChan, peerIn, wireIn, respChan, callReq, nReq,
                   answered, lastResult, notified>>

\* read_response: rx.recv() yields the oldest value in the response channel.
read_response(c) ==
    /\ respChan # <<>>
    /\ lastResult' = [lastResult EXCEPT
                        ![c] = [kind |-> "response", req |-> callReq[c],
                                of |-> Head(respChan)]]
    /\ respChan' = Tail(respChan)

AttRecvResponse(c) ==
    /\ callPc[c] = "waiting"
    /\ rxLock = c
    /\ read_response(c)
    /\ rxLock' = 0
    /\ answered' = answered \cup {callReq[c]}
    /\ callPc' = [callPc EXCEPT ![c] = "idle"]
    /\ UNCHANGED <<overlapped, attSender, sendChan, peerIn, wireIn, callReq, nReq, notified>>

\* read_response: the 5-second wait elapses with nothing in the channel, or
\* the caller's future is dropped while it waits.
AttTimeout(c) ==
    /\ callPc[c] = "waiting"
    /\ rxLock = c
    /\ respChan = <<>>
    /\ lastResult' = [lastResult EXCEPT
                        ![c] = [kind |-> "timeout", req |-> callReq[c], of |-> 0]]
    /\ rxLock' = 0
    /\ answered' = answered \cup {callReq[c]}
    /\ callPc' = [callPc EXCEPT ![c] = "idle"]
    /\ UNCHANGED <<overlapped, attSender, sendChan, peerIn, wireIn, respChan, callReq, nReq,
                   notified>>

\* send_thread: write the next queued PDU to the socket.
AttSendThread ==
    /\ sendChan # <<>>
    /\ peerIn' = Append(peerIn, Head(sendChan))
    /\ sendChan' = Tail(sendChan)
    /\ UNCHANGED <<overlapped, attSender, wireIn, respChan, rxLock, callPc, callReq, nReq,
                   answered, lastResult, notified>>

\* The peer answers the oldest request it holds.
AttPeerRespond ==
    /\ peerIn # <<>>
    /\ wireIn' = Append(wireIn, [op |-> "response", of |-> Head(peerIn)])
    /\ peerIn' = Tail(peerIn)
    /\ UNCHANGED <<overlapped, attSender, sendChan, respChan, rxLock, callPc, callReq, nReq,
                   answered, lastResult, notified>>

\* The peer sends a handle-value notification.
AttPeerNotify ==
    /\ attSender
    /\ Len(wireIn) < MaxReq
    /\ notified < MaxReq
    /\ wireIn' = Append(wireIn, [op |-> "notification", of |-> 0])
    /\ UNCHANGED <<overlapped, attSender, sendChan, peerIn, respChan, rxLock, callPc, callReq,
                   nReq, answered, lastResult, notified, overlapped>>

\* The peer sends a PDU with the notification opcode 0x1B that is shorter
\* than the three bytes of opcode and handle.
AttPeerMalformed ==
    /\ attSender
    /\ ~recvPanicked
    /\ Len(wireIn) < MaxReq
    /\ \A i \in 1..Len(wireIn) : wireIn[i].op # "short_notification"
    /\ wireIn' = Append(wireIn, [op |-> "short_notification", of |-> 0])
    /\ UNCHANGED <<attSender, sendChan, peerIn, respChan, rxLock, callPc, callReq,
                   nReq, answered, lastResult, notified, overlapped, recvPanicked>>

\* recv_thread, one packet: a notification goes to the listeners, anything
\* else is pushed on the response channel.  The handle of a notification is
\* read as data[1] and data[2] without a length check, so a notification
\* shorter than three bytes panics the task.
recv_thread(pkt) ==
    IF pkt.op = "short_notification"
      THEN recvPanicked' = TRUE /\ UNCHANGED <<notified, respChan>>
      ELSE IF pkt.op = "notification"
        THEN notified' = notified + 1 /\ UNCHANGED <<respChan, recvPanicked>>
        ELSE respChan' = Append(respChan, pkt.of) /\ UNCHANGED <<notified, recvPanicked>>

AttRecvThread ==
    /\ attSender
    /\ ~recvPanicked
    /\ wireIn # <<>>
    /\ recv_thread(Head(wireIn))
    /\ wireIn' = Tail(wireIn)
    /\ UNCHANGED <<overlapped, attSender, sendChan, peerIn, rxLock, callPc, callReq, nReq,
                   answered, lastResult>>

\* recv_thread reads EOF or an error: it leaves its loop and clears the sender.
AttLinkClosed ==
    /\ attSender
    /\ ~recvPanicked
    /\ attSender' = FALSE
    /\ UNCHANGED <<overlapped, sendChan, peerIn, wireIn, respChan, rxLock, callPc, callReq,
                   nReq, answered, lastResult, notified, overlapped>>

(***************************************************************************)
(* Media / ownership coordinator of one AACP session                       *)
(***************************************************************************)
\* MPRIS services on the session bus, in the order ListNames returns them.
PlayerOrder == <<"kdeconnect.mpris_phone", "spotify">>

Players == {PlayerOrder[i] : i \in 1..Len(PlayerOrder)}

is_kdeconnect_service(service) == service = "kdeconnect.mpris_phone"

\* The services whose MPRIS calls may succeed or fail independently.
Considered == {p \in Players : ~is_kdeconnect_service(p)}

\* Ear-detection vectors [primary, secondary] the buds report; the vector is
\* empty until the first report.
EarPairs == {<<"InEar", "InEar">>, <<"InEar", "OutOfEar">>, <<"OutOfEar", "InEar">>,
             <<"OutOfEar", "OutOfEar">>, <<"InCase", "InCase">>}

\* The adapter's own address and the other host connected to the buds.
local_mac == "local"

DeviceLists == {<<>>, <<"local", "peerX">>}

\* The profiles get_preferred_a2dp_profile probes, in its order.
profiles_to_check == <<"a2dp-sink-sbc_xq", "a2dp-sink-sbc", "a2dp-sink">>

\* Profile names that start with "a2dp-sink".
A2dpSinkNames == {"a2dp-sink-sbc_xq", "a2dp-sink-sbc", "a2dp-sink"}

\* What the audio card may offer at a given time.
ProfileSets == {{"headset-head-unit"},
                {"headset-head-unit", "a2dp-sink-sbc_xq", "a2dp-sink-sbc", "a2dp-sink"}}

\* MediaControllerState::new: both switches are set here and never written.
ear_detection_enabled == TRUE
disconnect_when_not_wearing == TRUE

\* The coordinator state together with the players and the audio card, as
\* one value the handlers transform.  io collects the calls a handler
\* issues, rule_io those of the sorted-change rule of handle_ear_detection.
World ==
    [is_playing |-> is_playing,
     paused_by |-> paused_by_app_services,
     device_index |-> device_index,
     cached |-> cached_a2dp_profile,
     old_in_ear |-> old_in_ear_data,
     players |-> playerStatus,
     profile |-> cardProfile,
     io |-> <<>>,
     rule_io |-> <<>>,
     dead |-> FALSE]

Commit(w) ==
    /\ is_playing' = w.is_playing
    /\ paused_by_app_services' = w.paused_by
    /\ device_index' = w.device_index
    /\ cached_a2dp_profile' = w.cached
    /\ old_in_ear_data' = w.old_in_ear
    /\ playerStatus' = w.players
    /\ cardProfile' = w.profile
    /\ io' = w.io
    /\ ruleIo' = w.rule_io

Call(method, target, ok) == [m |-> method, p |-> target, ok |-> ok]

\* The calls of `method` made on the services in S, in ListNames order; ok
\* is the set of services whose call returns Ok.
RECURSIVE MprisCalls(_, _, _, _)
MprisCalls(i, S, method, ok) ==
    IF i > Len(PlayerOrder) THEN <<>>
    ELSE (IF PlayerOrder[i] \in S
            THEN <<Call(method, PlayerOrder[i], PlayerOrder[i] \in ok)>>
            ELSE <<>>) \o MprisCalls(i + 1, S, method, ok)

check_if_playing(players) ==
    \E p \in Players : ~is_kdeconnect_service(p) /\ players[p] = "Playing"

\* The D-Bus part of pause and pause_all_media: Pause is called on every
\* service that is not a kdeconnect one and reports Playing.
PauseCalls(w, ok) ==
    LET playing == {p \in Players :
                      ~is_kdeconnect_service(p) /\ w.players[p] = "Playing"}
    IN [w EXCEPT
          !.io = @ \o MprisCalls(1, playing, "Pause", ok),
          !.players = [p \in Players |->
                         IF p \in playing \cap ok THEN "Paused" ELSE @[p]]]

\* Every service pause called Pause on, whether or not the call succeeded.
PausedServices_attempted(w, ok) ==
    {p \in Players : ~is_kdeconnect_service(p) /\ w.players[p] = "Playing"}

PausedServices(w, ok) ==
    {p \in Players : ~is_kdeconnect_service(p) /\ w.players[p] = "Playing"} \cap ok

\* MediaController::pause
pause(w, ok) ==
    IF PausedServices(w, ok) # {}
      THEN [PauseCalls(w, ok) EXCEPT !.paused_by = PausedServices(w, ok),
                                     !.is_playing = FALSE]
      ELSE PauseCalls(w, ok)

\* pause_all_media remembering the services it paused, as pause does.
pause_all_media_recording(w, ok) == pause(w, ok)

\* MediaController::pause_all_media
pause_all_media(w, ok) ==
    IF PausedServices(w, ok) # {}
      THEN [PauseCalls(w, ok) EXCEPT !.is_playing = FALSE]
      ELSE PauseCalls(w, ok)

\* MediaController::resume
resume(w, ok) ==
    LET services == {p \in w.paused_by : ~is_kdeconnect_service(p)}
        resumed == services \cap ok
        w1 == [w EXCEPT
                 !.io = @ \o MprisCalls(1, services, "Play", ok),
                 !.players = [p \in Players |->
                                IF p \in resumed THEN "Playing" ELSE @[p]]]
    IN IF w.paused_by = {} THEN w
       ELSE IF resumed # {} THEN [w1 EXCEPT !.paused_by = {}] ELSE w1

\* MediaController::is_a2dp_profile_available: some profile of the card has
\* a name that starts with "a2dp-sink".
is_a2dp_profile_available(avail) == \E p \in avail : p \in A2dpSinkNames

\* The first profile of profiles_to_check, from position i on, that the card
\* offers ("" when none).
RECURSIVE FirstAvailable(_, _)
FirstAvailable(i, avail) ==
    IF i > Len(profiles_to_check) THEN ""
    ELSE IF profiles_to_check[i] \in avail THEN profiles_to_check[i]
    ELSE FirstAvailable(i + 1, avail)

\* MediaController::get_preferred_a2dp_profile: the cached profile while the
\* card still offers it, else the first one of the probe order.
get_preferred_a2dp_profile(cached, avail) ==
    IF cached # "" /\ cached \in avail THEN cached ELSE FirstAvailable(1, avail)

\* set_card_profile_sync
set_card_profile_sync(w, name) ==
    [w EXCEPT !.profile = name,
              !.io = Append(@, Call("set_card_profile", name, TRUE))]

\* MediaController::activate_a2dp_profile.  idx_ok: the card of the device is
\* found; restart_ok: the audio-server restart succeeds.  On the path where no profile is available and the
\* restart succeeds the task takes the state mutex and, still holding it,
\* calls is_a2dp_profile_available, which waits for the same mutex.
activate_a2dp_profile(w, avail, idx_ok, restart_ok) ==
    LET w0 == [w EXCEPT !.io = Append(@, Call("activate_a2dp_profile", "", TRUE))]
        w1 == [w0 EXCEPT !.device_index = TRUE]
        preferred == get_preferred_a2dp_profile(w1.cached, avail)
    IN IF ~w.device_index /\ ~idx_ok THEN w0
       ELSE IF ~is_a2dp_profile_available(avail)
         THEN IF restart_ok THEN [w1 EXCEPT !.dead = TRUE] ELSE w1
         ELSE IF preferred = "" THEN w1
         ELSE set_card_profile_sync([w1 EXCEPT !.cached = preferred], preferred)

\* MediaController::deactivate_a2dp_profile
deactivate_a2dp_profile(w, idx_ok) ==
    LET w0 == [w EXCEPT !.io = Append(@, Call("deactivate_a2dp_profile", "", TRUE))]
    IN IF ~w.device_index /\ ~idx_ok THEN w0
       ELSE set_card_profile_sync([w0 EXCEPT !.device_index = TRUE], "off")

InEarData(statuses) == [i \in 1..Len(statuses) |-> statuses[i] = "InEar"]

AllTrue(b) == \A i \in 1..Len(b) : b[i]
AnyTrue(b) == \E i \in 1..Len(b) : b[i]
AllFalse(b) == \A i \in 1..Len(b) : ~b[i]
AnyFalse(b) == \E i \in 1..Len(b) : ~b[i]

\* Vec<bool>::sort on at most two elements (false sorts before true).
Sorted(b) == IF Len(b) = 2 /\ b[1] /\ ~b[2] THEN <<b[2], b[1]>> ELSE b

\* handle_ear_detection, lines 263-284: on insertion activate A2DP; with
\* every bud out pause and switch the card off.
EarFirstRule(w, old_in, new_in, avail, idx_ok, restart_ok, ok) ==
    LET a == activate_a2dp_profile(w, avail, idx_ok, restart_ok)
        p == pause(w, ok)
    IN IF AnyTrue(new_in) /\ AllFalse(old_in)
         THEN a
         ELSE IF AllFalse(new_in)
           THEN IF disconnect_when_not_wearing
                  THEN deactivate_a2dp_profile(p, idx_ok) ELSE p
           ELSE w

\* EarChangeRule without its final else branch.
EarChangeRule_without_else(w, old_in, new_in, ok) ==
    IF Sorted(new_in) # Sorted(old_in)
      THEN IF AllTrue(new_in) THEN resume(w, ok)
           ELSE IF ~AllFalse(old_in) THEN pause(w, ok)
           ELSE w
      ELSE w

\* handle_ear_detection, lines 300-328: the rule applied when the sorted
\* in-ear vectors differ.
EarChangeRule(w, old_in, new_in, ok) ==
    IF Sorted(new_in) # Sorted(old_in)
      THEN IF AllTrue(new_in) THEN resume(w, ok)
           ELSE IF ~AllFalse(old_in) THEN pause(w, ok)
           ELSE resume(w, ok)
      ELSE w

\* MediaController::handle_ear_detection
handle_ear_detection(w, old_statuses, new_statuses, avail, idx_ok, restart_ok, ok) ==
    LET old_in == InEarData(old_statuses)
        new_in == InEarData(new_statuses)
        w1 == EarFirstRule(w, old_in, new_in, avail, idx_ok, restart_ok, ok)
        w3 == EarChangeRule([w1 EXCEPT !.io = <<>>], old_in, new_in, ok)
    IN IF ~ear_detection_enabled THEN w
       ELSE IF w1.dead THEN w1
       ELSE [w3 EXCEPT !.old_in_ear = new_in, !.io = w1.io \o w3.io,
                       !.rule_io = w3.io]

InitMC ==
    /\ playerStatus = [p \in Players |->
                         IF is_kdeconnect_service(p) THEN "Playing" ELSE "Paused"]
    /\ cardProfile = "off"
    /\ availProfiles = {"headset-head-unit", "a2dp-sink-sbc_xq", "a2dp-sink-sbc", "a2dp-sink"}
    /\ earStatus = <<>>
    /\ connDevices = <<>>
    /\ is_playing = FALSE
    /\ paused_by_app_services = {}
    /\ device_index = FALSE
    /\ cached_a2dp_profile = ""
    /\ old_in_ear_data = <<FALSE, FALSE>>
    /\ stateDead = FALSE
    /\ pollPc = "sleep"
    /\ pollSample = FALSE
    /\ pollTodo = <<>>
    /\ cmdq = <<>>
    /\ wire = <<>>
    /\ io = <<>>
    /\ ruleIo = <<>>
    /\ lastStep = "init"

\* The fields of the coordinator state, the players and the audio card.
stateVars == <<is_playing, paused_by_app_services, device_index, cached_a2dp_profile,
               old_in_ear_data, playerStatus, cardProfile>>

pollVars == <<pollPc, pollSample, pollTodo>>

\* A step that issues no MPRIS or audio-card call.
Quiet(name) == lastStep' = name /\ io' = <<>> /\ ruleIo' = <<>>

\* While the poll loop runs a takeover it holds the lock of the AACP
\* manager's state, which the manager needs to record a report and to reach
\* its subscribers: no AACP event is delivered meanwhile.
AacpStateLocked == pollPc \in {"activate", "mi", "sr", "hj", "hung"}

\* A takeover of the poll loop is in progress.
InTakeover == pollPc \in {"activate", "mi", "sr", "hj"}

\* ---- the environment: the user's players and the audio server ----
PlayerChanges(p, s) ==
    /\ playerStatus[p] # s
    /\ playerStatus' = [playerStatus EXCEPT ![p] = s]
    /\ Quiet("-")
    /\ UNCHANGED <<is_playing, paused_by_app_services, device_index,
                   cached_a2dp_profile, old_in_ear_data, cardProfile, availProfiles,
                   earStatus, connDevices, stateDead, pollVars, cmdq, wire>>

ProfilesChange(S) ==
    /\ availProfiles # S
    /\ availProfiles' = S
    /\ Quiet("-")
    /\ UNCHANGED <<stateVars, earStatus, connDevices, stateDead, pollVars, cmdq,
                   wire>>

\* ---- airpods.rs: the AACP event loop and the OwnsConnection task ----
\* AACPEvent::EarDetection(old_status, new_status)
DevEarDetection(new, idx_ok, restart_ok, ok) ==
    /\ ~stateDead /\ ~AacpStateLocked
    /\ new # earStatus
    /\ LET w == handle_ear_detection(World, earStatus, new, availProfiles,
                                     idx_ok, restart_ok, ok)
       IN Commit(w) /\ stateDead' = w.dead
    /\ earStatus' = new
    /\ lastStep' = "EarDetection"
    /\ UNCHANGED <<availProfiles, connDevices, pollVars, cmdq, wire>>

\* The ownership-loss sequence of airpods.rs:163-165 and 237-239.
OwnershipLost(w, idx_ok, ok) ==
    deactivate_a2dp_profile(pause_all_media(w, ok), idx_ok)

\* A value of ControlCommand(OwnsConnection) reaches the OwnsConnection task.
DevOwnsConnection(value, idx_ok, ok) ==
    /\ ~stateDead /\ ~AacpStateLocked
    /\ LET owns == value # 0
       IN /\ Commit(IF ~owns THEN OwnershipLost(World, idx_ok, ok) ELSE World)
          /\ lastStep' = IF owns THEN "OwnsConnection1" ELSE "OwnsConnection0"
    /\ UNCHANGED <<availProfiles, earStatus, connDevices, stateDead, pollVars, cmdq,
                   wire>>

\* AACPEvent::OwnershipToFalseRequest
DevOwnershipToFalseRequest(idx_ok, ok) ==
    /\ ~stateDead /\ ~AacpStateLocked
    /\ Len(cmdq) < MaxQueue
    /\ cmdq' = Append(cmdq, 0)
    /\ Commit(OwnershipLost(World, idx_ok, ok))
    /\ lastStep' = "OwnershipToFalseRequest"
    /\ UNCHANGED <<availProfiles, earStatus, connDevices, stateDead, pollVars, wire>>

\* The devices of `new` that are neither in `old` nor the local adapter.
RECURSIVE new_devices_filtered(_, _, _)
new_devices_filtered(i, old, new) ==
    IF i > Len(new) THEN <<>>
    ELSE (IF (\A j \in 1..Len(old) : old[j] # new[i]) /\ new[i] # local_mac
            THEN <<new[i]>> ELSE <<>>) \o new_devices_filtered(i + 1, old, new)

\* The two sends of the task spawned for each new device.
RECURSIVE NewDeviceCalls(_)
NewDeviceCalls(devs) ==
    IF devs = <<>> THEN <<>>
    ELSE <<Call("send_media_information_new_device", Head(devs), TRUE),
           Call("send_add_tipi_device", Head(devs), TRUE)>> \o NewDeviceCalls(Tail(devs))

\* AACPEvent::ConnectedDevices(old_devices, new_devices)
DevConnectedDevices(new) ==
    /\ ~stateDead /\ ~AacpStateLocked
    /\ new # connDevices
    /\ connDevices' = new
    /\ io' = NewDeviceCalls(new_devices_filtered(1, connDevices, new))
    /\ ruleIo' = <<>>
    /\ lastStep' = "ConnectedDevices"
    /\ UNCHANGED <<stateVars, availProfiles, earStatus, stateDead, pollVars, cmdq, wire>>

\* A send of the AACP manager: the completion returns once the send channel
\* has accepted the payload, so accepted packets reach the device in the
\* order of the calls' completions; a failed send delivers nothing.
aacp_send(log, packet, ok) == IF ok THEN Append(log, packet) ELSE log

\* The command dispatcher task: send_control_command for the next command.
McDispatch(ok) ==
    /\ cmdq # <<>>
    /\ Len(wire) < MaxWire
    /\ cmdq' = Tail(cmdq)
    /\ wire' = IF InTakeover
                 THEN aacp_send(wire, [kind |-> "OwnsConnection", arg |-> Head(cmdq)], ok)
                 ELSE wire
    /\ Quiet("-")
    /\ UNCHANGED <<stateVars, availProfiles, earStatus, connDevices, stateDead,
                   pollVars>>

\* ---- media_controller.rs: the playback poll loop ----
\* spawn_blocking(check_if_playing) after the 500 ms sleep
PollSample ==
    /\ pollPc = "sleep"
    /\ pollSample' = check_if_playing(playerStatus)
    /\ pollPc' = "sampled"
    /\ Quiet("-")
    /\ UNCHANGED <<stateVars, availProfiles, earStatus, connDevices, stateDead,
                   pollTodo, cmdq, wire>>

\* takeover_skipped with the negation of the test dropped.
takeover_skipped_inverted(statuses) == \E i \in 1..Len(statuses) : statuses[i] = "InEar"

\* The takeover is skipped when no entry of ear_detection_status is InEar.
takeover_skipped(statuses) == ~(\E i \in 1..Len(statuses) : statuses[i] = "InEar")

\* Lines 134-153: record the sample; on not-playing -> playing either skip
\* or queue OwnsConnection = 0x01.
PollCommit ==
    /\ pollPc = "sampled" /\ ~stateDead
    /\ is_playing' = pollSample
    /\ IF ~is_playing /\ pollSample
         THEN IF takeover_skipped(earStatus)
                THEN /\ Quiet("PollSkip")
                     /\ pollPc' = "sleep"
                     /\ UNCHANGED <<cmdq, wire>>
                ELSE /\ Len(cmdq) < MaxQueue
                     /\ cmdq' = Append(cmdq, 1)
                     /\ UNCHANGED wire
                     /\ pollPc' = "activate"
                     /\ Quiet("PollTakeover")
         ELSE /\ Quiet("-")
              /\ pollPc' = "sleep"
              /\ UNCHANGED <<cmdq, wire>>
    /\ UNCHANGED <<paused_by_app_services, device_index, cached_a2dp_profile,
                   old_in_ear_data, playerStatus, cardProfile, availProfiles,
                   earStatus, connDevices, stateDead, pollSample, pollTodo>>

\* The devices of the list from the first one that is not the local adapter.
RECURSIVE SkipLocal(_)
SkipLocal(devs) ==
    IF devs = <<>> THEN <<>>
    ELSE IF Head(devs) = local_mac THEN SkipLocal(Tail(devs)) ELSE devs

\* Line 154: self.activate_a2dp_profile(), then the clone of connected_devices.
PollActivate(idx_ok, restart_ok) ==
    /\ pollPc = "activate"
    /\ LET w == activate_a2dp_profile(World, availProfiles, idx_ok, restart_ok)
           todo == SkipLocal(connDevices)
       IN /\ Commit(w) /\ stateDead' = w.dead
          /\ pollTodo' = IF w.dead THEN <<>> ELSE todo
          /\ pollPc' = IF w.dead THEN "hung" ELSE IF todo = <<>> THEN "sleep" ELSE "mi"
          /\ wire' = IF ~w.dead /\ todo = <<>> THEN <<>> ELSE wire
    /\ lastStep' = "PollActivate"
    /\ UNCHANGED <<availProfiles, earStatus, connDevices, pollSample, cmdq>>

\* Lines 161-175: the three sends for one peer; a failed send is logged and
\* the loop goes on.
PollSend(ok) ==
    /\ pollPc \in {"mi", "sr", "hj"}
    /\ Len(wire) < MaxWire
    /\ wire' = IF pollPc = "hj" /\ SkipLocal(Tail(pollTodo)) = <<>> THEN <<>>
                 ELSE aacp_send(wire, [kind |-> pollPc, arg |-> Head(pollTodo)], ok)
    /\ pollTodo' = IF pollPc = "hj" THEN SkipLocal(Tail(pollTodo)) ELSE pollTodo
    /\ pollPc' = CASE pollPc = "mi" -> "sr"
                   [] pollPc = "sr" -> "hj"
                   [] OTHER -> IF SkipLocal(Tail(pollTodo)) = <<>> THEN "sleep" ELSE "mi"
    /\ Quiet("-")
    /\ UNCHANGED <<stateVars, availProfiles, earStatus, connDevices, stateDead,
                   pollSample, cmdq>>

(***************************************************************************)
(* Conversational awareness                                                *)
(***************************************************************************)
\* libpulse's Volume::NORMAL, the raw volume that is 100 %.
VolumeNormal == 65536

\* get_sink_volume_percent_by_name_sync: the raw volume as a rounded percent.
get_sink_volume_percent(raw) == (raw * 200 + VolumeNormal) \div (2 * VolumeNormal)

\* transition_sink_volume: the raw volume a percentage is written as.
transition_sink_volume(target_volume) == (target_volume * VolumeNormal * 2 + 100) \div 200

\* Raw volumes the user may set the sink to.
UserVolumes == {0, 6554, 9830, 10486, 16384, 17039, 45875, 45900, 65536, 98304}

ConvStatuses == {1, 2, 3, 4, 5, 6, 7}

None == -1

InitCA ==
    /\ sinkVolume = 45875
    /\ conv_original_volume = None
    /\ conv_conversation_started = FALSE
    /\ convTrace = <<>>
    /\ convBase = 0
    /\ convFirst = None
    /\ convOnes = 0

\* ConvTarget raising the volume to 25 % on status 3 whatever the original.
ConvTarget_uncapped(status, current, started, original) ==
    CASE status = 1 ->
           IF (IF current = None THEN 0 ELSE current) > 25 THEN 25 ELSE None
      [] status = 2 ->
           IF original # None /\ original > 15 THEN 15 ELSE None
      [] status = 3 -> IF ~started THEN None ELSE 25
      [] status \in {4, 6, 7} ->
           IF started THEN original ELSE None
      [] OTHER -> None

\* The volume handle_conversational_awareness asks for (None: no change) on
\* a status, given the percentage it measured (None: the read failed).
ConvTarget(status, current, started, original) ==
    CASE status = 1 ->
           IF (IF current = None THEN 0 ELSE current) > 25 THEN 25 ELSE None
      [] status = 2 ->
           IF original # None /\ original > 15 THEN 15 ELSE None
      [] status = 3 ->
           IF ~started THEN None
           ELSE IF original # None THEN (IF original > 25 THEN 25 ELSE original)
           ELSE IF current # None THEN (IF current > 25 THEN 25 ELSE current)
           ELSE None
      [] status \in {4, 6, 7} ->
           IF started THEN original ELSE None
      [] OTHER -> None

\* ConvOriginal recording the measured volume at every status 1.
ConvOriginal_overwriting(status, current, started, original) ==
    CASE status = 1 -> IF current = None THEN 0 ELSE current
      [] status \in {4, 6, 7} /\ started -> None
      [] OTHER -> original

\* conv_original_volume after a status: recorded by a status 1 that starts a
\* conversation, cleared by the status that ends one.
ConvOriginal(status, current, started, original) ==
    CASE status = 1 /\ ~started -> IF current = None THEN 0 ELSE current
      [] status \in {4, 6, 7} /\ started -> None
      [] OTHER -> original

\* The statuses of the cycle 1, 2, 3, end handled so far, each with the sink
\* found and its volume read and written without error; empty when the
\* events seen do not form such a cycle.
NextTrace(status, clean) ==
    IF ~clean THEN <<>>
    ELSE IF status = 1 /\ ~conv_conversation_started THEN <<1>>
    ELSE IF convTrace = <<1>> /\ status = 2 THEN <<1, 2>>
    ELSE IF convTrace = <<1, 2>> /\ status = 3 THEN <<1, 2, 3>>
    ELSE IF convTrace = <<1, 2, 3>> /\ status \in {4, 6, 7} THEN <<1, 2, 3, status>>
    ELSE <<>>

\* MediaController::handle_conversational_awareness
handle_conversational_awareness(status, sink_found, read_ok, set_ok) ==
    LET current == IF read_ok THEN get_sink_volume_percent(sinkVolume) ELSE None
        target == ConvTarget(status, current, conv_conversation_started,
                             conv_original_volume)
    IN /\ ~stateDead
       /\ IF ~sink_found
            THEN UNCHANGED <<sinkVolume, conv_original_volume, conv_conversation_started,
                             convFirst, convOnes>>
            ELSE /\ sinkVolume' = IF target # None /\ set_ok
                                    THEN transition_sink_volume(target) ELSE sinkVolume
                 /\ conv_original_volume' =
                      ConvOriginal(status, current, conv_conversation_started,
                                   conv_original_volume)
                 /\ convFirst' = IF status = 1 /\ ~conv_conversation_started
                                   THEN (IF current = None THEN 0 ELSE current)
                                   ELSE convFirst
                 /\ convOnes' = IF status # 1 THEN convOnes
                                  ELSE IF ~conv_conversation_started THEN 1
                                  ELSE IF convOnes < MaxOnes THEN convOnes + 1
                                  ELSE convOnes
                 /\ conv_conversation_started' =
                      CASE status = 1 -> TRUE
                        [] status \in {4, 6, 7} -> FALSE
                        [] OTHER -> conv_conversation_started
       /\ convTrace' = NextTrace(status, sink_found /\ read_ok /\ set_ok)
       /\ convBase' = IF status = 1 /\ ~conv_conversation_started /\ read_ok
                        THEN get_sink_volume_percent(sinkVolume) ELSE convBase

\* The user changes the volume of the sink.
UserSetsVolume(raw) ==
    /\ raw # sinkVolume
    /\ sinkVolume' = raw
    /\ convTrace' = <<>>
    /\ UNCHANGED <<conv_original_volume, conv_conversation_started, convBase,
                   convFirst, convOnes>>

(***************************************************************************)
(* Session start-up: the handshake of AirPodsDevice::new and the AACP      *)
(* event loop it spawns                                                    *)
(***************************************************************************)
\* Product ids a device may report: the four of needs_init_ext and two others.
ProductIds == {8219, 8212, 8231, 8228, 8206, 8230}

\* apple_models.rs: needs_init_ext matching every product id.
needs_init_ext_always(product_id) == product_id \in ProductIds

\* apple_models.rs: needs_init_ext (0x201b | 0x2014 | 0x2027 | 0x2024)
needs_init_ext(product_id) == product_id \in {8219, 8212, 8231, 8228}

HsSendPcs == {"send_handshake", "send_set_feature_flags_packet",
              "send_notification_request", "send_some_packet", "send_init_ext",
              "send_proximity_keys_request"}

HsWaitPcs == {"wait_1", "wait_2", "wait_3"}

\* The packet each send call of the handshake emits.
PacketOf(pc) ==
    CASE pc = "send_handshake" -> "HANDSHAKE"
      [] pc = "send_set_feature_flags_packet" -> "SET_FEATURE_FLAGS"
      [] pc = "send_notification_request" -> "REQUEST_NOTIFICATIONS"
      [] pc = "send_some_packet" -> "SOME_PACKET"
      [] pc = "send_init_ext" -> "INIT_EXT"
      [] pc = "send_proximity_keys_request" -> "REQUEST_PROXIMITY_KEYS"

\* HsAfterSend giving up the handshake when a send fails.
HsAfterSend_aborting(pc, product_id, ok) ==
    IF ~ok THEN "aborted"
    ELSE CASE pc = "send_handshake" -> "wait_1"
           [] pc = "send_set_feature_flags_packet" -> "wait_2"
           [] pc = "send_notification_request" -> "send_some_packet"
           [] pc = "send_some_packet" ->
                IF needs_init_ext(product_id) THEN "wait_3"
                ELSE "send_proximity_keys_request"
           [] pc = "send_init_ext" -> "send_proximity_keys_request"
           [] pc = "send_proximity_keys_request" -> "setup"

\* Where AirPodsDevice::new continues after a send: every send's error is
\* only logged.
HsAfterSend(pc, product_id, ok) ==
    CASE pc = "send_handshake" -> "wait_1"
      [] pc = "send_set_feature_flags_packet" -> "wait_2"
      [] pc = "send_notification_request" -> "send_some_packet"
      [] pc = "send_some_packet" ->
           IF needs_init_ext(product_id) THEN "wait_3"
           ELSE "send_proximity_keys_request"
      [] pc = "send_init_ext" -> "send_proximity_keys_request"
      [] pc = "send_proximity_keys_request" -> "setup"

\* Where it continues after timeout(500 ms, notify.notified()).
HsAfterWait(pc) ==
    CASE pc = "wait_1" -> "send_set_feature_flags_packet"
      [] pc = "wait_2" -> "send_notification_request"
      [] pc = "wait_3" -> "send_init_ext"

Events == {"BatteryInfo", "EarDetection"}

InitHS ==
    /\ hsPc = "idle"
    /\ hsProduct = 0
    /\ hsLog = <<>>
    /\ hsWaited = FALSE
    /\ hsSent = 0
    /\ hsRecv = 0
    /\ hsSubscribed = FALSE
    /\ evq = <<>>
    /\ hsRaised = 0
    /\ appBattery = 0

\* AirPodsDevice::new up to the first send: connect, set_event_channel and
\* the control-command subscriptions.
HsNew(product_id) ==
    /\ hsPc = "idle"
    /\ hsPc' = "send_handshake"
    /\ hsProduct' = product_id
    /\ hsSubscribed' = TRUE
    /\ UNCHANGED <<hsLog, hsWaited, hsSent, hsRecv, evq, hsRaised, appBattery>>

\* One send call of the handshake.
HsSend(ok) ==
    /\ hsPc \in HsSendPcs
    /\ hsLog' = Append(hsLog, [kind |-> PacketOf(hsPc), waited |-> hsWaited])
    /\ hsSent' = IF ok THEN hsSent + 1 ELSE hsSent
    /\ hsWaited' = FALSE
    /\ hsPc' = HsAfterSend(hsPc, hsProduct, ok)
    /\ UNCHANGED <<hsProduct, hsRecv, hsSubscribed, evq, hsRaised, appBattery>>

\* The 500 ms of a wait elapse.
HsTimeout ==
    /\ hsPc \in HsWaitPcs
    /\ hsPc' = HsAfterWait(hsPc)
    /\ hsWaited' = TRUE
    /\ UNCHANGED <<hsProduct, hsLog, hsSent, hsRecv, hsSubscribed, evq, hsRaised,
                   appBattery>>

\* An inbound frame wakes a wait in progress.
HsNotified ==
    /\ hsPc' = IF hsPc \in HsWaitPcs THEN HsAfterWait(hsPc) ELSE hsPc
    /\ hsWaited' = IF hsPc \in HsWaitPcs THEN TRUE ELSE hsWaited

\* The peer answers a packet it has received.
HsPeerRespond ==
    /\ hsRecv < hsSent
    /\ hsRecv' = hsRecv + 1
    /\ HsNotified
    /\ UNCHANGED <<hsProduct, hsLog, hsSent, hsSubscribed, evq, hsRaised, appBattery>>

\* The peer sends telemetry while the handshake is in progress: the manager
\* raises the event on the registered event channel.
HsPeerTelemetry(e) ==
    /\ hsSubscribed
    /\ hsPc \in HsSendPcs \cup HsWaitPcs
    /\ Len(evq) < MaxEvents /\ hsRaised + Len(evq) < MaxEvents
    /\ evq' = Append(evq, e)
    /\ hsRaised' = IF e = "BatteryInfo" THEN hsRaised + 1 ELSE hsRaised
    /\ HsNotified
    /\ UNCHANGED <<hsProduct, hsLog, hsSent, hsRecv, hsSubscribed, appBattery>>

\* The media controller setup that follows the handshake; when the bluer
\* session or the adapter cannot be obtained new() returns the error and the
\* receiving end of the event channel is dropped with what it holds.
HsSetup(ok) ==
    /\ hsPc = "setup"
    /\ hsPc' = IF ok THEN "running" ELSE "failed"
    /\ evq' = IF ok THEN evq ELSE <<>>
    /\ UNCHANGED <<hsProduct, hsLog, hsWaited, hsSent, hsRecv, hsSubscribed, hsRaised,
                   appBattery>>

\* The main AACP event loop forwards an event that has no arm of its own.
HsForward ==
    /\ hsPc = "running" /\ ~stateDead
    /\ evq # <<>> /\ Head(evq) = "BatteryInfo"
    /\ evq' = Tail(evq)
    /\ appBattery' = appBattery + 1
    /\ UNCHANGED <<hsPc, hsProduct, hsLog, hsWaited, hsSent, hsRecv, hsSubscribed,
                   hsRaised>>

\* The main AACP event loop hands an EarDetection event to the coordinator.
HsEarDetection(new, idx_ok, restart_ok, ok) ==
    /\ hsPc = "running"
    /\ evq # <<>> /\ Head(evq) = "EarDetection"
    /\ evq' = Tail(evq)
    /\ DevEarDetection(new, idx_ok, restart_ok, ok)
    /\ UNCHANGED <<hsPc, hsProduct, hsLog, hsWaited, hsSent, hsRecv, hsSubscribed,
                   hsRaised, appBattery>>

(***************************************************************************)
(* Session supervisor and registry                                         *)
(***************************************************************************)
Devices == {"d1", "d2"}

\* Names BlueZ or the devices file gives a device.
Names == {"AirPods", "AirPods Pro"}

InitREG ==
    /\ osConnected = [d \in Devices |-> FALSE]
    /\ device_managers = [d \in Devices |-> 0]
    /\ spawnedInit = [d \in Devices |-> <<>>]
    /\ builtInit = [d \in Devices |-> <<>>]
    /\ nSessions = 0
    /\ sessionOwner = <<>>
    /\ appQ = <<>>
    /\ appDevices = [d \in Devices |-> ""]
    /\ routedTo = 0

\* DeviceManagers::set_aacp on the entry of the device (inserted when
\* missing): the entry's manager becomes the one given.
set_aacp(entry, manager) == manager

\* Sessions being built or built.
SessionsStarted ==
    nSessions + Len(spawnedInit["d1"]) + Len(spawnedInit["d2"])

\* bluez_connection_listener: PropertiesChanged with Connected = true for an
\* AirPods device spawns the init task.
RegLinkUp(d, name) ==
    /\ ~osConnected[d]
    /\ SessionsStarted < MaxSessions
    /\ osConnected' = [osConnected EXCEPT ![d] = TRUE]
    /\ spawnedInit' = [spawnedInit EXCEPT ![d] = Append(@, name)]
    /\ UNCHANGED <<device_managers, builtInit, nSessions, sessionOwner, appQ,
                   appDevices, routedTo>>

\* bluez_connection_listener: PropertiesChanged with Connected = false.
RegLinkDown(d) ==
    /\ osConnected[d]
    /\ Len(appQ) < MaxAppQ
    /\ osConnected' = [osConnected EXCEPT ![d] = FALSE]
    /\ appQ' = Append(appQ, [ev |-> "DeviceDisconnected", mac |-> d, name |-> ""])
    /\ UNCHANGED <<device_managers, spawnedInit, builtInit, nSessions, sessionOwner,
                   appDevices, routedTo>>

\* The init task awaits AirPodsDevice::new: a session is built and its tasks
\* (dispatcher, poll loop, event loop) are started.
RegBuild(d) ==
    /\ spawnedInit[d] # <<>>
    /\ nSessions' = nSessions + 1
    /\ sessionOwner' = Append(sessionOwner, d)
    /\ spawnedInit' = [spawnedInit EXCEPT ![d] = Tail(@)]
    /\ builtInit' = [builtInit EXCEPT ![d] =
                        Append(@, [id |-> nSessions + 1, name |-> Head(spawnedInit[d])])]
    /\ UNCHANGED <<osConnected, device_managers, appQ, appDevices, routedTo>>

\* The init task registers the session and reports DeviceConnected.
RegRegister(d) ==
    /\ builtInit[d] # <<>>
    /\ Len(appQ) < MaxAppQ
    /\ device_managers' = [device_managers EXCEPT ![d] = set_aacp(@, Head(builtInit[d]).id)]
    /\ builtInit' = [builtInit EXCEPT ![d] = Tail(@)]
    /\ appQ' = Append(appQ, [ev |-> "DeviceConnected", mac |-> d,
                             name |-> Head(builtInit[d]).name])
    /\ UNCHANGED <<osConnected, spawnedInit, nSessions, sessionOwner, appDevices,
                   routedTo>>

\* The command dispatcher looks the device up and sends on its session.
RegCommand(d) ==
    /\ device_managers[d] # 0
    /\ routedTo # device_managers[d]
    /\ routedTo' = device_managers[d]
    /\ UNCHANGED <<osConnected, device_managers, spawnedInit, builtInit, nSessions,
                   sessionOwner, appQ, appDevices>>

\* App::process_events for one DeviceConnected or DeviceDisconnected event.
AppProcess ==
    /\ appQ # <<>>
    /\ appQ' = Tail(appQ)
    /\ LET e == Head(appQ) IN
         appDevices' = [appDevices EXCEPT ![e.mac] =
                           IF e.ev = "DeviceConnected" THEN e.name ELSE ""]
    /\ UNCHANGED <<osConnected, device_managers, spawnedInit, builtInit, nSessions,
                   sessionOwner, routedTo>>

(***************************************************************************)
(* Command dispatcher                                                      *)
(***************************************************************************)
\* Addresses a command can name: the AirPods devices and one Nothing device,
\* which registers an ATT manager only.
CmdMacs == Devices \cup {"n1"}

CmdKinds == {"ControlCommand", "Rename"}

InitCMD ==
    /\ cmdChan = <<>>
    /\ attEntry = FALSE
    /\ dispatcherPc = "recv"
    /\ cmdQueued = 0
    /\ cmdHandled = 0
    /\ cmdLast = [mac |-> "", outcome |-> "", session |-> 0, before |-> ""]

\* The front end (App::send_command, or an IPC client) queues a command.
CmdQueue(mac, kind) ==
    /\ cmdQueued < MaxCmds
    /\ cmdQueued' = cmdQueued + 1
    /\ cmdChan' = Append(cmdChan, [mac |-> mac, kind |-> kind])
    /\ UNCHANGED <<attEntry, dispatcherPc, cmdHandled, cmdLast>>

\* bluez_connection_listener for a Nothing device: the ATT manager is stored
\* in the registry entry.
CmdAttRegister ==
    /\ ~attEntry
    /\ attEntry' = TRUE
    /\ UNCHANGED <<cmdChan, dispatcherPc, cmdQueued, cmdHandled, cmdLast>>

\* managers.get(&mac) followed by dm.get_aacp(): the session to send on.
CmdLookup(mac) ==
    IF mac \in Devices /\ device_managers[mac] # 0 THEN "aacp"
    ELSE IF mac = "n1" /\ attEntry THEN "no_aacp"
    ELSE "no_entry"

\* Where the dispatcher task continues after a send that returned ok or Err.
CmdAfterSend_ending(ok) == IF ok THEN "recv" ELSE "ended"

CmdAfterSend(ok) == "recv"

\* One iteration of the dispatcher's while-let loop.
CmdDispatch(ok) ==
    /\ dispatcherPc = "recv"
    /\ cmdChan # <<>>
    /\ cmdChan' = Tail(cmdChan)
    /\ cmdHandled' = cmdHandled + 1
    /\ LET c == Head(cmdChan)
           found == CmdLookup(c.mac)
       IN IF found = "aacp"
          THEN /\ cmdLast' = [mac |-> c.mac,
                              outcome |-> IF ok THEN "sent" ELSE "send_failed",
                              session |-> device_managers[c.mac],
                              before |-> cmdLast.outcome]
               /\ dispatcherPc' = CmdAfterSend(ok)
          ELSE /\ ok
               /\ cmdLast' = [mac |-> c.mac, outcome |-> found, session |-> 0,
                              before |-> cmdLast.outcome]
               /\ dispatcherPc' = "recv"
    /\ UNCHANGED <<attEntry, cmdQueued>>

(***************************************************************************)
(* IPC snapshot                                                            *)
(***************************************************************************)
\* AppEvent values. id is the ControlCommand identifier (0 for the other
\* variants), val stands for the payload.
AppEvents ==
    [type : {"DeviceConnected"}, mac : Devices, variant : {""}, id : {0}, val : {1}]
    \cup [type : {"DeviceDisconnected"}, mac : Devices, variant : {""}, id : {0}, val : {1}]
    \cup [type : {"AACPEvent"}, mac : Devices, variant : {"BatteryInfo"}, id : {0}, val : {1, 2}]
    \cup [type : {"AACPEvent"}, mac : Devices, variant : {"DeviceInfo", "EarDetection"},
          id : {0}, val : {1}]
    \cup [type : {"AACPEvent"}, mac : Devices, variant : {"ControlCommand"}, id : {1, 2}, val : {1}]
    \cup [type : {"AudioUnavailable"}, mac : {""}, variant : {""}, id : {0}, val : {1}]

\* The retain closure of the DeviceConnected arm.
ConnectKeeps(e, mac) ==
    CASE e.type = "DeviceConnected" -> e.mac # mac
      [] e.type = "AACPEvent" -> e.mac # mac
      [] OTHER -> TRUE

\* The retain closure of the DeviceDisconnected arm.
DisconnectKeeps_telemetry(e, mac) ==
    CASE e.type = "DeviceConnected" -> e.mac # mac
      [] e.type = "DeviceDisconnected" -> e.mac # mac
      [] OTHER -> TRUE

DisconnectKeeps(e, mac) ==
    CASE e.type = "DeviceConnected" -> e.mac # mac
      [] e.type = "AACPEvent" -> e.mac # mac
      [] e.type = "DeviceDisconnected" -> e.mac # mac
      [] OTHER -> TRUE

\* The retain closures of the AACPEvent arm: which earlier event the new one
\* replaces.
Replaces(event, e) ==
    /\ e.type = "AACPEvent" /\ e.mac = event.mac
    /\ CASE event.variant = "BatteryInfo" -> e.variant = "BatteryInfo"
         [] event.variant = "ControlCommand" ->
               e.variant = "ControlCommand" /\ e.id = event.id
         [] event.variant = "DeviceInfo" -> e.variant = "DeviceInfo"
         [] OTHER -> FALSE

update_snapshot(snap, event) ==
    CASE event.type = "DeviceConnected" ->
            Append(SelectSeq(snap, LAMBDA e : ConnectKeeps(e, event.mac)), event)
      [] event.type = "DeviceDisconnected" ->
            SelectSeq(snap, LAMBDA e : DisconnectKeeps(e, event.mac))
      [] event.type = "AACPEvent" ->
            Append(SelectSeq(snap, LAMBDA e : ~Replaces(event, e)), event)
      [] event.type = "AudioUnavailable" ->
            IF \E i \in 1..Len(snap) : snap[i].type = "AudioUnavailable"
            THEN snap ELSE Append(snap, event)

InitSNAP ==
    /\ snapshot = <<>>
    /\ snapDone = [type |-> "", mac |-> ""]

\* The daemon passes one event to update_snapshot.
SnapUpdate(event) ==
    /\ Len(update_snapshot(snapshot, event)) <= MaxSnap
    /\ snapshot' = update_snapshot(snapshot, event)
    /\ snapDone' = [type |-> event.type, mac |-> event.mac]

(***************************************************************************)
(* IPC server                                                              *)
(***************************************************************************)
InitIPC ==
    /\ ipcPc = "listening"
    /\ clSnapIdx = 0
    /\ bcNext = 0
    /\ rxPos = 1
    /\ acceptedAt = 0
    /\ clStream = <<>>
    /\ clSkipped = 0

\* IpcServer::broadcast: the event gets the next serial; the channel keeps the
\* last BroadcastCap events.
IpcBroadcast ==
    /\ bcNext < MaxBroadcast
    /\ bcNext' = bcNext + 1
    /\ UNCHANGED <<ipcPc, clSnapIdx, rxPos, acceptedAt, clStream, clSkipped>>

\* listener.accept() followed by broadcast_tx.subscribe(): the receiver sees
\* the events sent from now on.
IpcAccept ==
    /\ ipcPc \in {"listening", "closed"}
    /\ ipcPc' = "replay"
    /\ clSnapIdx' = 0
    /\ rxPos' = bcNext + 1
    /\ acceptedAt' = bcNext
    /\ clStream' = <<>>
    /\ clSkipped' = 0
    /\ UNCHANGED bcNext

\* One iteration of the replay loop, under the snapshot's read lock; a failed
\* write ends the client task.
IpcReplayOne(ok) ==
    /\ ipcPc = "replay"
    /\ clSnapIdx < Len(snapshot)
    /\ IF ok THEN clSnapIdx' = clSnapIdx + 1 /\ ipcPc' = "replay"
             ELSE clSnapIdx' = clSnapIdx /\ ipcPc' = "closed"
    /\ UNCHANGED <<bcNext, rxPos, acceptedAt, clStream, clSkipped>>

\* The replay loop is over: the writer and the forwarding tasks are spawned.
IpcReplayDone ==
    /\ ipcPc = "replay"
    /\ clSnapIdx = Len(snapshot)
    /\ ipcPc' = "stream"
    /\ UNCHANGED <<clSnapIdx, bcNext, rxPos, acceptedAt, clStream, clSkipped>>

\* broadcast::Receiver::recv for a receiver at pos when sent events have been
\* sent: the event, or Lagged(n) when the oldest kept event is past pos.
BcRecv(pos, sent) ==
    LET oldest == IF sent > BroadcastCap THEN sent - BroadcastCap + 1 ELSE 1
    IN IF pos < oldest THEN [kind |-> "Lagged", n |-> oldest - pos, pos |-> oldest]
       ELSE [kind |-> "Ok", n |-> pos, pos |-> pos + 1]

\* Where the forwarding task continues after a recv result.
IpcAfterRecv_strict(kind) == IF kind = "Ok" THEN "stream" ELSE "closed"

IpcAfterRecv(kind) == IF kind = "Closed" THEN "closed" ELSE "stream"

\* The forwarding task takes one recv result; an event goes through write_tx
\* to the writer task, which writes it to the client.
IpcForward(ok) ==
    /\ ipcPc = "stream"
    /\ rxPos <= bcNext
    /\ LET r == BcRecv(rxPos, bcNext) IN
         /\ rxPos' = r.pos
         /\ IF r.kind = "Lagged"
            THEN /\ ok
                 /\ clSkipped' = clSkipped + r.n
                 /\ clStream' = clStream
                 /\ ipcPc' = IpcAfterRecv(r.kind)
            ELSE /\ clSkipped' = clSkipped
                 /\ clStream' = IF ok THEN Append(clStream, r.n) ELSE clStream
                 /\ ipcPc' = IF ok THEN IpcAfterRecv(r.kind) ELSE "writer_down"
    /\ UNCHANGED <<clSnapIdx, bcNext, acceptedAt>>

\* read_msg returns Err: the client went away, both tasks are aborted.
IpcClientCloses ==
    /\ ipcPc \in {"stream", "writer_down"}
    /\ ipcPc' = "closed"
    /\ UNCHANGED <<clSnapIdx, bcNext, rxPos, acceptedAt, clStream, clSkipped>>

(***************************************************************************)
(* Resolvable private addresses                                            *)
(***************************************************************************)
Reverse(s) == [i \in 1..Len(s) |-> s[Len(s) + 1 - i]]

RECURSIVE SumSeq(_)
SumSeq(s) == IF s = <<>> THEN 0 ELSE Head(s) + SumSeq(Tail(s))

\* Aes128::encrypt_block of the aes crate, stood in for by a keyed
\* permutation of the blocks in which every output byte depends on its
\* position, on the input byte there and on the whole key.
Aes128Encrypt(key, block) ==
    [i \in 1..BlockLen |-> (block[i] + key[i] + i * SumSeq(key)) % 256]

\* utils.rs e(key, data): key and data are byte-reversed, encrypted, and the result is
\* reversed.
e_block(key, data) == Reverse(Aes128Encrypt(Reverse(key), Reverse(data)))

\* utils.rs ah: r fills the first three bytes of a zero block; the hash is
\* the first three bytes of e(k, block).
ah(k, r) == SubSeq(e_block(k, r \o [i \in 1..(BlockLen - 3) |-> 0]), 1, 3)

\* The bytes of the address string in the order of the string: the tokens
\* between the colons, each read as a hexadecimal number.
ParseAddr_unreversed(addr) == [i \in 1..Len(addr) |-> addr[i][1] * 16 + addr[i][2]]

\* verify_rpa, lines 28-34: the tokens between the colons, each read as a
\* hexadecimal number, in reversed order.
ParseAddr(addr) == Reverse([i \in 1..Len(addr) |-> addr[i][1] * 16 + addr[i][2]])

verify_rpa(addr, irk) ==
    LET rpa == ParseAddr(addr)
    IN IF Len(rpa) # 6 THEN FALSE
       ELSE SubSeq(rpa, 1, 3) = ah(irk, SubSeq(rpa, 4, 6))

\* The identity keys of the devices file and the random parts a device
\* draws.
IRKs == [1..BlockLen -> {1, 200}]
Prands == [1..3 -> {0, 77}]

\* The address string BlueZ reports for the address whose bytes, in wire
\* order, are bytes: most significant byte first, two hex digits each.
AddrString(bytes) ==
    [i \in 1..Len(bytes) |-> <<Reverse(bytes)[i] \div 16, Reverse(bytes)[i] % 16>>]

\* The address a device generates from its key and prand; tamper > 0 changes
\* that hash byte, tamper = 4 drops the last byte of the address.
DeviceAddr(irk, prand, tamper) ==
    LET hash == ah(irk, prand)
        h == [i \in 1..3 |-> IF i = tamper THEN (hash[i] + 1) % 256 ELSE hash[i]]
    IN IF tamper = 4 THEN AddrString(SubSeq(h \o prand, 1, 5))
       ELSE AddrString(h \o prand)

InitRPA ==
    /\ rpaAddr = <<>>
    /\ rpaIrk = <<>>
    /\ rpaDone = FALSE
    /\ rpaResult = FALSE

\* A device is found; the monitor is about to check its address against a
\* stored key.
RpaFound(addr, irk) ==
    /\ rpaAddr = <<>>
    /\ rpaAddr' = addr
    /\ rpaIrk' = irk
    /\ rpaDone' = FALSE
    /\ rpaResult' = FALSE

\* The monitor calls verify_rpa.
RpaVerify ==
    /\ rpaAddr # <<>> /\ ~rpaDone
    /\ rpaDone' = TRUE
    /\ rpaResult' = verify_rpa(rpaAddr, rpaIrk)
    /\ UNCHANGED <<rpaAddr, rpaIrk>>

(***************************************************************************)
(* Specifications                                                          *)
(***************************************************************************)
\* ---- the event loop and the OwnsConnection task of one session ----
MxTasks == {"events", "owns"}

\* What each task receives: AACP events, or OwnsConnection values.
MxKinds(task) ==
    IF task = "events"
      THEN {"EarDetection", "ConversationalAwareness", "StemPress",
            "OwnershipToFalseRequest", "Other"}
      ELSE {"Owns0", "Owns1"}

\* The calls a handler awaits on the coordinator: pause_all_media and
\* deactivate_a2dp_profile after a loss of ownership, one call for the other
\* coordinator events, none for a value that is forwarded or ignored.
HandlerSteps(kind) ==
    CASE kind \in {"OwnershipToFalseRequest", "Owns0"} -> 2
      [] kind \in {"Other", "Owns1"} -> 0
      [] OTHER -> 1

\* Mutex::lock on the coordinator returns only while no guard is alive.
ControllerLockFree_unlocked(holder) == TRUE

ControllerLockFree(holder) == holder = "free"

InitMX ==
    /\ mxChan = [t \in MxTasks |-> <<>>]
    /\ mxSent = [t \in MxTasks |-> 0]
    /\ mxPc = [t \in MxTasks |-> "recv"]
    /\ mxEv = [t \in MxTasks |-> ""]
    /\ mxLeft = [t \in MxTasks |-> 0]
    /\ mxLock = "free"

\* The AACP manager publishes an event or an OwnsConnection value.
MxDeliver(task, kind) ==
    /\ mxSent[task] < MaxEvents
    /\ mxSent' = [mxSent EXCEPT ![task] = @ + 1]
    /\ mxChan' = [mxChan EXCEPT ![task] = Append(@, kind)]
    /\ UNCHANGED <<mxPc, mxEv, mxLeft, mxLock>>

\* rx.recv() returns: a value without a coordinator handler is dealt with
\* at once, any other goes on to lock the coordinator.
MxRecv(task) ==
    /\ mxPc[task] = "recv"
    /\ mxChan[task] # <<>>
    /\ mxChan' = [mxChan EXCEPT ![task] = Tail(@)]
    /\ IF HandlerSteps(Head(mxChan[task])) = 0
         THEN UNCHANGED <<mxPc, mxEv>>
         ELSE /\ mxPc' = [mxPc EXCEPT ![task] = "lock"]
              /\ mxEv' = [mxEv EXCEPT ![task] = Head(mxChan[task])]
    /\ UNCHANGED <<mxSent, mxLeft, mxLock>>

\* mc_clone.lock().await returns the guard.
MxLock(task) ==
    /\ mxPc[task] = "lock"
    /\ ControllerLockFree(mxLock)
    /\ mxLock' = task
    /\ mxPc' = [mxPc EXCEPT ![task] = "run"]
    /\ mxLeft' = [mxLeft EXCEPT ![task] = HandlerSteps(mxEv[task])]
    /\ UNCHANGED <<mxChan, mxSent, mxEv>>

\* One awaited call of the handler returns; after the last one the guard
\* goes out of scope and the task receives again.
MxStep(task) ==
    /\ mxPc[task] = "run"
    /\ IF mxLeft[task] > 1
         THEN /\ mxLeft' = [mxLeft EXCEPT ![task] = @ - 1]
              /\ UNCHANGED <<mxPc, mxEv, mxLock>>
         ELSE /\ mxLeft' = [mxLeft EXCEPT ![task] = 0]
              /\ mxPc' = [mxPc EXCEPT ![task] = "recv"]
              /\ mxEv' = [mxEv EXCEPT ![task] = ""]
              /\ mxLock' = "free"
    /\ UNCHANGED <<mxChan, mxSent>>

\* ---- App::process_events on the device list ----
InitAPP ==
    /\ devices = [m \in CmdMacs |-> "absent"]
    /\ device_order = <<>>
    /\ appLink = [m \in CmdMacs |-> "none"]

\* device_order.retain(|m| m != &mac)
Retain(order, mac) == SelectSeq(order, LAMBDA m : m # mac)

\* AppEvent::DeviceConnected: a known device is renamed, an unknown one is
\* inserted and appended to the order.
AppDeviceConnected(mac, name) ==
    /\ devices' = [devices EXCEPT ![mac] = name]
    /\ device_order' = IF devices[mac] # "absent" THEN device_order
                       ELSE Append(device_order, mac)
    /\ appLink' = [appLink EXCEPT ![mac] = "up"]

\* AppEvent::DeviceDisconnected
AppDeviceDisconnected(mac) ==
    /\ devices' = [devices EXCEPT ![mac] = "absent"]
    /\ device_order' = Retain(device_order, mac)
    /\ appLink' = [appLink EXCEPT ![mac] = "down"]

\* AppEvent::AACPEvent, from a session or from the BLE scanner: a device
\* without an entry gets one, named "AirPods".
handle_aacp_event(mac) ==
    /\ devices' = [devices EXCEPT ![mac] = IF @ = "absent" THEN "AirPods" ELSE @]
    /\ device_order' = IF devices[mac] # "absent" THEN device_order
                       ELSE Append(device_order, mac)
    /\ UNCHANGED appLink

\* ---- settings rows: keys, bytes sent, bytes decoded ----
\* The largest value of a u8.
ByteMax == 255

Toggles == {"ConversationDetectConfig", "OneBudAncMode", "AdaptiveVolumeConfig",
            "VolumeSwipeMode", "AllowAutoConnect"}

Sliders == {"ChimeVolume", "AutoAncStrength"}

\* min and max of a SettingsItem::Slider.
SliderRange(cmd) ==
    IF cmd = "ChimeVolume" THEN [min |-> 15, max |-> 100] ELSE [min |-> 0, max |-> 100]

\* The byte activate_settings_row sends for the new value of a toggle.
ToggleByte(new_val) == IF new_val THEN 1 ELSE 2

\* The value handle_aacp_event stores for the first byte of a toggle's
\* control command.
DecodeToggle(cmd, byte) ==
    IF cmd = "AllowAutoConnect" THEN byte # 0 ELSE byte = 1

\* value.saturating_sub(5).max(min)
SliderLeft(value, min) ==
    LET sub == IF value < 5 THEN 0 ELSE value - 5
    IN IF sub < min THEN min ELSE sub

\* (value + 5).min(max) on a u8: when the sum exceeds 255 a build with
\* overflow checks panics (-1) and a build without them wraps.
SliderRight(value, max, wraps) ==
    LET sum == IF value + 5 <= ByteMax THEN value + 5
               ELSE IF wraps THEN (value + 5) % (ByteMax + 1) ELSE -1
    IN IF sum > max THEN max ELSE sum

InitKEY ==
    /\ setPc = "idle"
    /\ setCmd = ""
    /\ setValue = 50
    /\ setOn = FALSE
    /\ setChoice = FALSE
    /\ setSent = -1
    /\ setOverflow = FALSE

\* The device reports the setting's value; the row shows it.
KeyReport(cmd, byte) ==
    /\ setPc = "idle"
    /\ setPc' = "shown"
    /\ setCmd' = cmd
    /\ IF cmd \in Sliders
         THEN setValue' = byte /\ UNCHANGED setOn
         ELSE setOn' = DecodeToggle(cmd, byte) /\ UNCHANGED setValue
    /\ UNCHANGED <<setChoice, setSent, setOverflow>>

\* KeyCode::Left on a slider row.
KeyLeft ==
    /\ setPc = "shown"
    /\ setCmd \in Sliders
    /\ setSent' = SliderLeft(setValue, SliderRange(setCmd).min)
    /\ setValue' = setSent'
    /\ setPc' = "sent"
    /\ UNCHANGED <<setCmd, setOn, setChoice, setOverflow>>

\* KeyCode::Right on a slider row.
KeyRight(wraps) ==
    /\ setPc = "shown"
    /\ setCmd \in Sliders
    /\ setOverflow' = (setValue + 5 > ByteMax)
    /\ setSent' = SliderRight(setValue, SliderRange(setCmd).max, wraps)
    /\ IF setSent' = -1
         THEN setPc' = "panicked" /\ UNCHANGED setValue
         ELSE setPc' = "sent" /\ setValue' = setSent'
    /\ UNCHANGED <<setCmd, setOn, setChoice>>

\* activate_settings_row on a toggle row.
KeyToggle ==
    /\ setPc = "shown"
    /\ setCmd \in Toggles
    /\ setChoice' = ~setOn
    /\ setOn' = ~setOn
    /\ setSent' = ToggleByte(~setOn)
    /\ setPc' = "sent"
    /\ UNCHANGED <<setCmd, setValue, setOverflow>>

\* The device echoes the byte it was sent; handle_aacp_event decodes it.
KeyEcho ==
    /\ setPc = "sent"
    /\ setPc' = "echoed"
    /\ IF setCmd \in Sliders
         THEN setValue' = setSent /\ UNCHANGED setOn
         ELSE setOn' = DecodeToggle(setCmd, setSent) /\ UNCHANGED setValue
    /\ UNCHANGED <<setCmd, setChoice, setSent, setOverflow>>

InitPANIC == recvPanicked = FALSE

InitLOCK ==
    /\ regReaders = 0
    /\ regWriter = FALSE
    /\ nothingPc = "idle"

Init == InitLE /\ InitATT /\ InitMC /\ InitCA /\ InitHS /\ InitREG /\ InitCMD /\ InitSNAP
        /\ InitIPC /\ InitRPA /\ InitPANIC /\ InitLOCK /\ InitMX /\ InitAPP /\ InitKEY

NextLE ==
    \/ \E a \in Addrs : LeDeviceFound(a) /\ UNCHANGED <<varsATT, varsMC, varsCA, varsHS, varsREG, varsRest>>
    \/ \E a \in Addrs, f \in Frames : LeAdvertise(a, f) /\ UNCHANGED <<varsATT, varsMC, varsCA, varsHS, varsREG, varsRest>>
    \/ \E b \in BOOLEAN : LeSetPreference(b) /\ UNCHANGED <<varsATT, varsMC, varsCA, varsHS, varsREG, varsRest>>
    \/ \E t \in Tasks : LeTaskRecv(t) /\ UNCHANGED <<varsATT, varsMC, varsCA, varsHS, varsREG, varsRest>>
    \/ \E t \in Tasks : LeTaskLock(t) /\ UNCHANGED <<varsATT, varsMC, varsCA, varsHS, varsREG, varsRest>>
    \/ \E t \in Tasks, o \in ConnectOutcomes : LeConnectDone(t, o) /\ UNCHANGED <<varsATT, varsMC, varsCA, varsHS, varsREG, varsRest>>

SpecLE == Init /\ [][NextLE]_vars

NextATT ==
    \/ \E c \in Callers : AttCall(c) /\ UNCHANGED <<varsLE, varsMC, varsCA, varsHS, varsREG, varsRest>>
    \/ \E c \in Callers : AttLockRx(c) /\ UNCHANGED <<varsLE, varsMC, varsCA, varsHS, varsREG, varsRest>>
    \/ \E c \in Callers : AttRecvResponse(c) /\ UNCHANGED <<varsLE, varsMC, varsCA, varsHS, varsREG, varsRest>>
    \/ \E c \in Callers : AttTimeout(c) /\ UNCHANGED <<varsLE, varsMC, varsCA, varsHS, varsREG, varsRest>>
    \/ AttSendThread /\ UNCHANGED <<varsLE, varsMC, varsCA, varsHS, varsREG, varsRest>>
    \/ AttPeerRespond /\ UNCHANGED <<varsLE, varsMC, varsCA, varsHS, varsREG, varsRest>>
    \/ AttPeerNotify /\ UNCHANGED <<varsLE, varsMC, varsCA, varsHS, varsREG, varsRest>>
    \/ AttRecvThread /\ UNCHANGED <<varsLE, varsMC, varsCA, varsHS, varsREG, varsRest>>
    \/ AttLinkClosed /\ UNCHANGED <<varsLE, varsMC, varsCA, varsHS, varsREG, varsRest>>

SpecATT == Init /\ [][NextATT]_vars

\* The ATT client with a peer that also sends a malformed notification.
OldRest == <<varsCMD, varsSNAP, varsIPC, varsRPA, varsLOCK, varsMX, varsAPP, varsKEY>>

NextATTM ==
    \/ \E c \in Callers : AttCall(c) /\ UNCHANGED <<varsLE, varsMC, varsCA, varsHS, varsREG, varsRest>>
    \/ \E c \in Callers : AttLockRx(c) /\ UNCHANGED <<varsLE, varsMC, varsCA, varsHS, varsREG, varsRest>>
    \/ \E c \in Callers : AttRecvResponse(c) /\ UNCHANGED <<varsLE, varsMC, varsCA, varsHS, varsREG, varsRest>>
    \/ \E c \in Callers : AttTimeout(c) /\ UNCHANGED <<varsLE, varsMC, varsCA, varsHS, varsREG, varsRest>>
    \/ AttSendThread /\ UNCHANGED <<varsLE, varsMC, varsCA, varsHS, varsREG, varsRest>>
    \/ AttPeerRespond /\ UNCHANGED <<varsLE, varsMC, varsCA, varsHS, varsREG, varsRest>>
    \/ AttPeerNotify /\ UNCHANGED <<varsLE, varsMC, varsCA, varsHS, varsREG, varsRest>>
    \/ AttPeerMalformed /\ UNCHANGED <<varsLE, varsMC, varsCA, varsHS, varsREG, OldRest>>
    \/ AttRecvThread /\ UNCHANGED <<varsLE, varsMC, varsCA, varsHS, varsREG, OldRest>>
    \/ AttLinkClosed /\ UNCHANGED <<varsLE, varsMC, varsCA, varsHS, varsREG, varsRest>>

SpecATTM == Init /\ [][NextATTM]_vars

\* The outcomes of get_audio_device_index and restart_wire_plumber that a
\* step can tell apart: the index is looked up only while it is unknown, the
\* audio server is restarted only while the card offers no A2DP profile.
IndexOutcomes == IF device_index THEN {TRUE} ELSE BOOLEAN
RestartOutcomes == IF is_a2dp_profile_available(availProfiles) THEN {TRUE} ELSE BOOLEAN

Next ==
    \/ \E p \in Considered, s \in {"Playing", "Paused"} :
          PlayerChanges(p, s) /\ UNCHANGED <<varsLE, varsATT, varsCA, varsHS, varsREG, varsRest>>
    \/ \E S \in ProfileSets : ProfilesChange(S) /\ UNCHANGED <<varsLE, varsATT, varsCA, varsHS, varsREG, varsRest>>
    \/ \E new \in EarPairs, idx_ok \in IndexOutcomes, restart_ok \in RestartOutcomes,
          ok \in SUBSET Considered :
          DevEarDetection(new, idx_ok, restart_ok, ok)
             /\ UNCHANGED <<varsLE, varsATT, varsCA, varsHS, varsREG, varsRest>>
    \/ \E value \in {0, 1}, idx_ok \in IndexOutcomes, ok \in SUBSET Considered :
          DevOwnsConnection(value, idx_ok, ok) /\ UNCHANGED <<varsLE, varsATT, varsCA, varsHS, varsREG, varsRest>>
    \/ \E idx_ok \in IndexOutcomes, ok \in SUBSET Considered :
          DevOwnershipToFalseRequest(idx_ok, ok) /\ UNCHANGED <<varsLE, varsATT, varsCA, varsHS, varsREG, varsRest>>
    \/ \E new \in DeviceLists :
          DevConnectedDevices(new) /\ UNCHANGED <<varsLE, varsATT, varsCA, varsHS, varsREG, varsRest>>
    \/ \E ok \in BOOLEAN : McDispatch(ok) /\ UNCHANGED <<varsLE, varsATT, varsCA, varsHS, varsREG, varsRest>>
    \/ PollSample /\ UNCHANGED <<varsLE, varsATT, varsCA, varsHS, varsREG, varsRest>>
    \/ PollCommit /\ UNCHANGED <<varsLE, varsATT, varsCA, varsHS, varsREG, varsRest>>
    \/ \E idx_ok \in IndexOutcomes, restart_ok \in RestartOutcomes :
          PollActivate(idx_ok, restart_ok) /\ UNCHANGED <<varsLE, varsATT, varsCA, varsHS, varsREG, varsRest>>
    \/ \E ok \in BOOLEAN : PollSend(ok) /\ UNCHANGED <<varsLE, varsATT, varsCA, varsHS, varsREG, varsRest>>

Spec == Init /\ [][Next]_vars

NextCA ==
    \/ \E status \in ConvStatuses, sink_found \in BOOLEAN, read_ok \in BOOLEAN,
          set_ok \in BOOLEAN :
          /\ handle_conversational_awareness(status, sink_found, read_ok, set_ok)
          /\ UNCHANGED <<varsLE, varsATT, varsMC, varsHS, varsREG, varsRest>>
    \/ \E raw \in UserVolumes : UserSetsVolume(raw) /\ UNCHANGED <<varsLE, varsATT, varsMC, varsHS, varsREG, varsRest>>

SpecCA == Init /\ [][NextCA]_vars

NextHS ==
    \/ \E product_id \in ProductIds : HsNew(product_id) /\ UNCHANGED <<varsLE, varsATT, varsMC, varsCA, varsREG, varsRest>>
    \/ \E ok \in BOOLEAN : HsSend(ok) /\ UNCHANGED <<varsLE, varsATT, varsMC, varsCA, varsREG, varsRest>>
    \/ HsTimeout /\ UNCHANGED <<varsLE, varsATT, varsMC, varsCA, varsREG, varsRest>>
    \/ HsPeerRespond /\ UNCHANGED <<varsLE, varsATT, varsMC, varsCA, varsREG, varsRest>>
    \/ \E e \in Events : HsPeerTelemetry(e) /\ UNCHANGED <<varsLE, varsATT, varsMC, varsCA, varsREG, varsRest>>
    \/ \E ok \in BOOLEAN : HsSetup(ok) /\ UNCHANGED <<varsLE, varsATT, varsMC, varsCA, varsREG, varsRest>>
    \/ HsForward /\ UNCHANGED <<varsLE, varsATT, varsMC, varsCA, varsREG, varsRest>>
    \/ \E new \in EarPairs, idx_ok \in IndexOutcomes, restart_ok \in RestartOutcomes,
          ok \in BOOLEAN :
             /\ HsEarDetection(new, idx_ok, restart_ok, ok)
             /\ UNCHANGED <<varsLE, varsATT, varsCA, varsREG, varsRest>>
    \/ \E S \in ProfileSets : ProfilesChange(S) /\ UNCHANGED <<varsLE, varsATT, varsCA, varsHS, varsREG, varsRest>>

SpecHS == Init /\ [][NextHS]_vars

NextREG ==
    \/ \E d \in Devices, name \in Names : RegLinkUp(d, name) /\ UNCHANGED <<varsLE, varsATT, varsMC, varsCA, varsHS, varsRest>>
    \/ \E d \in Devices : RegLinkDown(d) /\ UNCHANGED <<varsLE, varsATT, varsMC, varsCA, varsHS, varsRest>>
    \/ \E d \in Devices : RegBuild(d) /\ UNCHANGED <<varsLE, varsATT, varsMC, varsCA, varsHS, varsRest>>
    \/ \E d \in Devices : RegRegister(d) /\ UNCHANGED <<varsLE, varsATT, varsMC, varsCA, varsHS, varsRest>>
    \/ \E d \in Devices : RegCommand(d) /\ UNCHANGED <<varsLE, varsATT, varsMC, varsCA, varsHS, varsRest>>
    \/ AppProcess /\ UNCHANGED <<varsLE, varsATT, varsMC, varsCA, varsHS, varsRest>>

SpecREG == Init /\ [][NextREG]_vars

\* ---- the registry lock around the dispatcher and the registrations ----
\* The task spawned for a Nothing device takes the write guard and then
\* awaits NothingDevice::new, which connects the ATT link.
LockNothingBegin ==
    /\ nothingPc = "idle"
    /\ ~regWriter
    /\ regReaders = 0
    /\ regWriter' = TRUE
    /\ nothingPc' = "connecting"
    /\ UNCHANGED <<regReaders, varsCMD>>

\* NothingDevice::new returns (the entry is stored and the guard dropped) or
\* its connect fails (expect panics, the guard is dropped by the unwinding).
LockNothingDone(ok) ==
    /\ nothingPc = "connecting"
    /\ nothingPc' = "done"
    /\ regWriter' = FALSE
    /\ attEntry' = (attEntry \/ ok)
    /\ UNCHANGED <<regReaders, cmdChan, dispatcherPc, cmdQueued, cmdHandled, cmdLast>>

\* The dispatcher receives a command, takes the read guard and looks the
\* session up; with a session it starts the send with the guard held.
LockDispatchTake ==
    /\ dispatcherPc = "recv"
    /\ cmdChan # <<>>
    /\ ~regWriter
    /\ cmdChan' = Tail(cmdChan)
    /\ LET c == Head(cmdChan)
           found == CmdLookup(c.mac)
       IN IF found = "aacp"
          THEN /\ regReaders' = regReaders + 1
               /\ dispatcherPc' = "sending"
               /\ cmdLast' = [mac |-> c.mac, outcome |-> "sending",
                              session |-> device_managers[c.mac],
                              before |-> cmdLast.outcome]
               /\ UNCHANGED cmdHandled
          ELSE /\ cmdLast' = [mac |-> c.mac, outcome |-> found, session |-> 0,
                              before |-> cmdLast.outcome]
               /\ cmdHandled' = cmdHandled + 1
               /\ UNCHANGED <<regReaders, dispatcherPc>>
    /\ UNCHANGED <<regWriter, nothingPc, attEntry, cmdQueued>>

\* The send returns; the guard is dropped at the end of the loop body.
LockDispatchSent(ok) ==
    /\ dispatcherPc = "sending"
    /\ regReaders' = regReaders - 1
    /\ cmdHandled' = cmdHandled + 1
    /\ cmdLast' = [cmdLast EXCEPT !.outcome = IF ok THEN "sent" ELSE "send_failed"]
    /\ dispatcherPc' = CmdAfterSend(ok)
    /\ UNCHANGED <<regWriter, nothingPc, cmdChan, attEntry, cmdQueued>>

\* The command dispatcher next to the supervisor that fills the registry.
\* A link-down leaves the registry as it is (RegLinkDown), so the registry
\* the dispatcher sees only changes by the registrations.
AllButREG == <<varsLE, varsATT, varsMC, varsCA, varsHS, varsExt>>

NextCMD ==
    \/ \E d \in Devices : RegLinkUp(d, "AirPods") /\ UNCHANGED <<AllButREG, varsRest>>
    \/ \E d \in Devices : RegBuild(d) /\ UNCHANGED <<AllButREG, varsRest>>
    \/ \E d \in Devices : RegRegister(d) /\ UNCHANGED <<AllButREG, varsRest>>
    \/ AppProcess /\ UNCHANGED <<AllButREG, varsRest>>
    \/ CmdAttRegister /\ UNCHANGED <<AllButREG, varsREG, varsSNAP, varsIPC, varsRPA>>
    \/ \E mac \in CmdMacs, kind \in CmdKinds : CmdQueue(mac, kind) /\ UNCHANGED <<AllButREG, varsREG, varsSNAP, varsIPC, varsRPA>>
    \/ \E ok \in BOOLEAN : CmdDispatch(ok) /\ UNCHANGED <<AllButREG, varsREG, varsSNAP, varsIPC, varsRPA>>

SpecCMD == Init /\ [][NextCMD]_vars

\* The dispatcher and the registrations, step by step around the lock.  The
\* AirPods registration builds the session first and takes the write guard
\* for the insertion only.
LockRest == <<varsLE, varsATT, varsMC, varsCA, varsHS, varsSNAP, varsIPC, varsRPA, varsPANIC,
              varsMX, varsAPP, varsKEY>>

NextLOCK ==
    \/ \E d \in Devices : RegLinkUp(d, "AirPods") /\ UNCHANGED <<LockRest, varsCMD, varsLOCK>>
    \/ \E d \in Devices : RegBuild(d) /\ UNCHANGED <<LockRest, varsCMD, varsLOCK>>
    \/ \E d \in Devices :
          /\ ~regWriter
          /\ regReaders = 0
          /\ RegRegister(d)
          /\ UNCHANGED <<LockRest, varsCMD, varsLOCK>>
    \/ AppProcess /\ UNCHANGED <<LockRest, varsCMD, varsLOCK>>
    \/ \E mac \in CmdMacs, kind \in CmdKinds : CmdQueue(mac, kind) /\ UNCHANGED <<LockRest, varsREG, varsLOCK>>
    \/ LockNothingBegin /\ UNCHANGED <<LockRest, varsREG>>
    \/ \E ok \in BOOLEAN : LockNothingDone(ok) /\ UNCHANGED <<LockRest, varsREG>>
    \/ LockDispatchTake /\ UNCHANGED <<LockRest, varsREG>>
    \/ \E ok \in BOOLEAN : LockDispatchSent(ok) /\ UNCHANGED <<LockRest, varsREG>>

SpecLOCK == Init /\ [][NextLOCK]_vars

\* The event loop and the OwnsConnection task of one session.
AllOld == <<varsLE, varsATT, varsMC, varsCA, varsHS, varsREG, varsCMD, varsSNAP, varsIPC,
            varsRPA>>

NextMX ==
    \/ \E task \in MxTasks : \E kind \in MxKinds(task) :
          MxDeliver(task, kind) /\ UNCHANGED <<AllOld, varsPANIC, varsLOCK, varsAPP, varsKEY>>
    \/ \E task \in MxTasks : MxRecv(task) /\ UNCHANGED <<AllOld, varsPANIC, varsLOCK, varsAPP, varsKEY>>
    \/ \E task \in MxTasks : MxLock(task) /\ UNCHANGED <<AllOld, varsPANIC, varsLOCK, varsAPP, varsKEY>>
    \/ \E task \in MxTasks : MxStep(task) /\ UNCHANGED <<AllOld, varsPANIC, varsLOCK, varsAPP, varsKEY>>

SpecMX == Init /\ [][NextMX]_vars

\* The front end processing the events of app_tx one by one.
NextAPP ==
    \/ \E mac \in CmdMacs, name \in Names :
          AppDeviceConnected(mac, name) /\ UNCHANGED <<AllOld, varsPANIC, varsLOCK, varsMX, varsKEY>>
    \/ \E mac \in CmdMacs :
          AppDeviceDisconnected(mac) /\ UNCHANGED <<AllOld, varsPANIC, varsLOCK, varsMX, varsKEY>>
    \/ \E mac \in Devices :
          handle_aacp_event(mac) /\ UNCHANGED <<AllOld, varsPANIC, varsLOCK, varsMX, varsKEY>>

SpecAPP == Init /\ [][NextAPP]_vars

\* One settings row: the device's report, one key, the device's echo.
KeyRest == <<AllOld, varsPANIC, varsLOCK, varsMX, varsAPP>>

NextKEY ==
    \/ /\ setPc = "idle"
       /\ \/ \E cmd \in Sliders, byte \in 0..ByteMax : KeyReport(cmd, byte)
          \/ \E cmd \in Toggles, byte \in 0..2 : KeyReport(cmd, byte)
       /\ UNCHANGED KeyRest
    \/ KeyLeft /\ UNCHANGED KeyRest
    \/ \E wraps \in BOOLEAN : KeyRight(wraps) /\ UNCHANGED KeyRest
    \/ KeyToggle /\ UNCHANGED KeyRest
    \/ KeyEcho /\ UNCHANGED KeyRest

SpecKEY == Init /\ [][NextKEY]_vars

AllButRest == <<varsLE, varsATT, varsMC, varsCA, varsHS, varsREG, varsExt>>

\* What the audio card may offer when the set of profiles changes between
\* activations: also the plain a2dp-sink profile alone.
CardProfileSets == ProfileSets \cup {{"headset-head-unit", "a2dp-sink"}}

\* The coordinator's ear-detection handler with an audio card whose profiles
\* come and go.
NextA2DP ==
    \/ \E p \in Considered, s \in {"Playing", "Paused"} :
          PlayerChanges(p, s) /\ UNCHANGED <<varsLE, varsATT, varsCA, varsHS, varsREG, varsRest>>
    \/ \E S \in CardProfileSets :
          ProfilesChange(S) /\ UNCHANGED <<varsLE, varsATT, varsCA, varsHS, varsREG, varsRest>>
    \/ \E new \in EarPairs, idx_ok \in IndexOutcomes, restart_ok \in RestartOutcomes,
          ok \in SUBSET Considered :
          DevEarDetection(new, idx_ok, restart_ok, ok)
             /\ UNCHANGED <<varsLE, varsATT, varsCA, varsHS, varsREG, varsRest>>

SpecA2DP == Init /\ [][NextA2DP]_vars

\* The monitor's address check on the addresses devices generate.
NextRPA ==
    \/ /\ rpaAddr = <<>>
       /\ \E gen \in IRKs, prand \in Prands, tamper \in 0..4, irk \in IRKs :
             RpaFound(DeviceAddr(gen, prand, tamper), irk)
       /\ UNCHANGED <<AllButRest, varsCMD, varsSNAP, varsIPC>>
    \/ RpaVerify /\ UNCHANGED <<AllButRest, varsCMD, varsSNAP, varsIPC>>

SpecRPA == Init /\ [][NextRPA]_vars

NextSNAP ==
    \/ \E event \in AppEvents : SnapUpdate(event) /\ UNCHANGED <<AllButRest, varsCMD, varsIPC, varsRPA>>

SpecSNAP == Init /\ [][NextSNAP]_vars

\* The IPC server with one client; the snapshot changes while no replay
\* holds its read lock.
NextIPC ==
    \/ \E event \in {e \in AppEvents : e.mac \in {"d1", ""} /\ e.variant \in {"", "BatteryInfo"}} :
          /\ ipcPc # "replay"
          /\ SnapUpdate(event)
          /\ UNCHANGED <<AllButRest, varsCMD, varsIPC, varsRPA>>
    \/ IpcBroadcast /\ UNCHANGED <<AllButRest, varsCMD, varsSNAP, varsRPA>>
    \/ IpcAccept /\ UNCHANGED <<AllButRest, varsCMD, varsSNAP, varsRPA>>
    \/ \E ok \in BOOLEAN : IpcReplayOne(ok) /\ UNCHANGED <<AllButRest, varsCMD, varsSNAP, varsRPA>>
    \/ IpcReplayDone /\ UNCHANGED <<AllButRest, varsCMD, varsSNAP, varsRPA>>
    \/ \E ok \in BOOLEAN : IpcForward(ok) /\ UNCHANGED <<AllButRest, varsCMD, varsSNAP, varsRPA>>
    \/ IpcClientCloses /\ UNCHANGED <<AllButRest, varsCMD, varsSNAP, varsRPA>>

SpecIPC == Init /\ [][NextIPC]_vars

(***************************************************************************)
(* Claims                                                                  *)
(***************************************************************************)

\* C1: auto-connect is single-flight per device: when every state-0
\* advertisement was delivered before the first connect attempt had been
\* handled and auto-connect stayed enabled, the external connect operation is
\* invoked at most once for the burst (exactly once when it is handled).
C1_SingleFlightConnect ==
    (~lateAd /\ ~prefEverOff) => connectCalls <= 1

\* C2: at most one ATT request is in flight per session: a request PDU is
\* handed to the send channel only when every earlier request has been
\* answered or has timed out.
C2_OneRequestInFlight ==
    Cardinality((1..nReq) \ answered) <= 1

\* C3: every ATT read/write that returns a response returns the response the
\* peer sent for that same request, never the stale response of an earlier
\* request that timed out or was aborted (stated for requests issued one
\* after the other, so that it does not rest on C2).
C3_ResponseMatchesRequest ==
    ~overlapped =>
        \A c \in Callers :
            lastResult[c].kind = "response" => lastResult[c].of = lastResult[c].req

\* ---- helpers of the coordinator claims ----
PauseTargets(calls) == {calls[i].p : i \in {j \in 1..Len(calls) : calls[j].m = "Pause"}}
PlayTargets(calls) == {calls[i].p : i \in {j \in 1..Len(calls) : calls[j].m = "Play"}}
PlayingPlayers == {p \in Players : playerStatus[p] = "Playing"}
BothIn == <<"InEar", "InEar">>
BothOut == <<"OutOfEar", "OutOfEar">>

\* The poll loop records a sample that turns is_playing from false to true.
PollObservesStart ==
    pollPc = "sampled" /\ pollPc' # "sampled" /\ ~is_playing /\ pollSample

\* The step queues no command, starts no takeover and calls nothing.
TakeoverSkippedStep ==
    /\ cmdq' = cmdq /\ wire' = wire /\ pollPc' = "sleep"
    /\ io' = <<>> /\ cardProfile' = cardProfile

\* C4 (as amended): when the playback poll loop observes a transition from
\* not-playing to playing and no bud is in-ear, the takeover is skipped: no
\* OwnsConnection=0x01 command is queued, the A2DP profile is not activated
\* and no MediaInformation / SmartRoutingShowUI / HijackRequest packet is sent.
C4_SkipWhenNoBudInEar ==
    [][(PollObservesStart /\ (\A i \in 1..Len(earStatus) : earStatus[i] # "InEar"))
          => TakeoverSkippedStep]_vars

\* C4 (as claimed): ... and any bud is not in-ear, the takeover is skipped.
C4_SkipWhenAnyBudNotInEar ==
    [][(PollObservesStart /\ (\E i \in 1..Len(earStatus) : earStatus[i] # "InEar"))
          => TakeoverSkippedStep]_vars

\* The poll loop has just skipped a takeover with both buds reported out.
C4_Witness ==
    lastStep = "PollSkip" /\ is_playing /\ earStatus = BothOut /\ cmdq = <<>>

\* C5: during a takeover the packets reach the device in this order:
\* OwnsConnection=0x01 first, then for every connected peer other than the
\* local adapter MediaInformation, SmartRoutingShowUI, HijackRequest; nothing
\* is sent for the local adapter's own address.
C5_TakeoverPacketOrder ==
    \A j \in 1..Len(wire) :
        wire[j].kind \in {"mi", "sr", "hj"} =>
            /\ wire[j].arg # local_mac
            /\ \E i \in 1..(j - 1) : wire[i].kind = "OwnsConnection" /\ wire[i].arg = 1

\* C6: an EarDetection event from both buds in ear to both buds out sends
\* Pause to every playing player (spotify), records the services whose Pause
\* succeeded in paused_by_us and, the card being known, sets its profile to
\* off; a following EarDetection event back to both buds in ear sends Play to
\* exactly the recorded services and, once at least one resume succeeded,
\* empties paused_by_us.
C6_PauseThenResume ==
    [][/\ (lastStep' = "EarDetection" /\ earStatus = BothIn /\ earStatus' = BothOut)
            => /\ PlayingPlayers \cap Considered \subseteq PauseTargets(io')
               /\ \A i \in 1..Len(io') :
                     (io'[i].m = "Pause" /\ io'[i].ok) => io'[i].p \in paused_by_app_services'
               /\ device_index => cardProfile' = "off"
       /\ (lastStep' = "EarDetection" /\ earStatus = BothOut /\ earStatus' = BothIn)
            => /\ PlayTargets(io') = paused_by_app_services
               /\ (\E i \in 1..Len(io') : io'[i].m = "Play" /\ io'[i].ok)
                     => paused_by_app_services' = {}]_vars

OwnershipLostCalls(S) ==
    /\ PauseTargets(io') = S /\ PlayTargets(io') = {}
    /\ Len(io') >= 1
    /\ \E d \in 1..Len(io') :
          /\ io'[d].m = "deactivate_a2dp_profile"
          /\ \A i \in 1..(d - 1) : io'[i].m = "Pause"
          /\ \A i \in (d + 1)..Len(io') : io'[i] = [m |-> "set_card_profile", p |-> "off", ok |-> TRUE]
          /\ device_index' => (Len(io') = d + 1 /\ cardProfile' = "off")

C9_ReactivateOnOwnership ==
    [][(lastStep = "OwnsConnection0" /\ lastStep' = "OwnsConnection1") =>
          ((\E i \in 1..Len(earStatus) : earStatus[i] = "InEar")
              <=> (\E i \in 1..Len(io') : io'[i].m = "activate_a2dp_profile"))]_vars

\* C10: a conversational-awareness cycle restores the volume: with no
\* conversation in progress and the sink volume at v per cent, the statuses
\* 1, 2, 3 and then 4 (or 6 or 7) set the volume to min(v,25), min(v,15),
\* min(v,25) and finally v, and afterwards conv_original_volume is cleared and
\* conv_conversation_started is false.
C10_ConversationCycle ==
    LET now == (sinkVolume * 200 + 65536) \div 131072
        min(a, b) == IF a < b THEN a ELSE b
    IN /\ Len(convTrace) = 1 => now = min(convBase, 25)
       /\ Len(convTrace) = 2 => now = min(convBase, 15)
       /\ Len(convTrace) = 3 => now = min(convBase, 25)
       /\ Len(convTrace) = 4 =>
             /\ now = convBase
             /\ conv_original_volume = None /\ ~conv_conversation_started

\* A full cycle 1, 2, 3, 4 from 70 % has ended with the volume back at 70 %.
C10_Witness ==
    convTrace = <<1, 2, 3, 4>> /\ convBase = 70 /\ sinkVolume = 45875

\* C11: conv_original_volume is recorded only by a status 1 received while no
\* conversation is in progress: while a conversation is in progress it holds
\* the volume measured at that conversation's first status 1, whatever
\* further status-1 events arrive, and the status that ends the conversation
\* restores the sink to that volume (or leaves it when the write fails).
C11_OriginalNotOverwritten ==
    [][/\ conv_conversation_started' => conv_original_volume' = convFirst'
       /\ conv_original_volume' # conv_original_volume
             => conv_conversation_started' # conv_conversation_started
       /\ (conv_conversation_started /\ ~conv_conversation_started')
             => /\ sinkVolume' \in {sinkVolume, transition_sink_volume(convFirst)}
                /\ conv_original_volume' = None]_vars

\* A conversation that began at 70 % and saw a second status 1 at 25 % has
\* ended with the sink back at 70 %.
C11_Witness ==
    /\ ~conv_conversation_started /\ convOnes = 2 /\ convFirst = 70
    /\ conv_original_volume = None /\ sinkVolume = 45875

\* ---- helpers of the session start-up claims ----
\* The kinds of the handshake send calls made so far.
HsKinds == [i \in 1..Len(hsLog) |-> hsLog[i].kind]

\* The handshake sequence for a product id.
HandshakeSequence(product_id) ==
    <<"HANDSHAKE", "SET_FEATURE_FLAGS", "REQUEST_NOTIFICATIONS", "SOME_PACKET">>
    \o (IF product_id \in {8219, 8212, 8231, 8228} THEN <<"INIT_EXT">> ELSE <<>>)
    \o <<"REQUEST_PROXIMITY_KEYS">>

\* AirPodsDevice::new has left the handshake behind.
HsOver == hsPc \in {"setup", "running", "failed"}

\* C12: after link-up the session sends the handshake packets in the fixed
\* order HANDSHAKE, SET_FEATURE_FLAGS, REQUEST_NOTIFICATIONS, the opaque
\* packet, INIT_EXT, REQUEST_PROXIMITY_KEYS, where INIT_EXT is sent if and
\* only if the product id is one of 0x201b, 0x2014, 0x2027, 0x2024: at every
\* moment the sends made so far are the beginning of that sequence.
C12_HandshakeOrder ==
    LET expected == HandshakeSequence(hsProduct)
    IN /\ Len(hsLog) <= Len(expected)
       /\ HsKinds = SubSeq(expected, 1, Len(hsLog))

\* The handshake for product 0x201b has sent all six packets, INIT_EXT fifth.
C12_Witness ==
    /\ hsPc = "setup" /\ hsProduct = 8219
    /\ Len(hsLog) = 6 /\ hsLog[5].kind = "INIT_EXT"

\* C13: between every two consecutive handshake sends the session waits
\* until an inbound frame has been received or 500 ms have elapsed: no
\* handshake packet is sent immediately after the previous one.
C13_HandshakePacing ==
    \A i \in 2..Len(hsLog) : hsLog[i].waited

\* C14: the handshake always runs to completion: while it is in progress the
\* session's own next step (a send, or the end of a wait by timeout) is
\* possible whatever the peer does and whatever sends have failed, and once
\* it is over every packet of the sequence has been sent in order.
C14_HandshakeCompletes ==
    /\ (hsPc # "idle" /\ ~HsOver) => ENABLED ((\E ok \in BOOLEAN : HsSend(ok)) \/ HsTimeout)
    /\ HsOver => HsKinds = HandshakeSequence(hsProduct)

\* The handshake is over although the peer never sent a frame and at least
\* one send failed.
C14_Witness ==
    /\ hsPc = "setup" /\ hsRecv = 0 /\ hsRaised = 0 /\ evq = <<>>
    /\ hsSent < Len(hsLog) /\ Len(hsLog) = 5

\* C15: telemetry the peer sends during the handshake is not lost: the event
\* channel is registered before the first handshake packet is sent, and every
\* BatteryInfo event raised on it during the handshake has been forwarded to
\* the app or is waiting on the channel of an event loop that can still run.
C15_TelemetryForwarded ==
    LET waiting == Cardinality({i \in 1..Len(evq) : evq[i] = "BatteryInfo"})
    IN /\ hsLog # <<>> => hsSubscribed
       /\ appBattery + waiting = hsRaised
       /\ waiting > 0 => ~stateDead

\* C16: an AACP session has at most one outstanding request at any time: the
\* number of packets sent minus the number of responses received is 0 or 1.
C16_OneOutstandingRequest ==
    hsSent - hsRecv \in {0, 1}

\* C17: after an external connect invocation completes, whether it
\* succeeded, exited with failure or could not be executed, the device
\* address is no longer in connecting_macs, so that the next state-0
\* advertisement starts a new connect attempt.
C17_GuardReleasedOnCompletion ==
    [][\A t \in Tasks :
          (taskPc[t] = "connecting" /\ taskPc'[t] # "connecting")
             => taskAddr[t] \notin connecting_macs']_vars

\* C18: for a verified device every manufacturer-data frame of length >= 21
\* produces one BatteryInfo event, also a state-0 frame received while
\* auto-connect is enabled and while the address is already in
\* connecting_macs, and the property-stream task goes on to later frames.
C18_EveryFrameReported ==
    [][\A t \in Tasks :
          /\ (taskPc[t] \in {"lock", "connecting"}
                /\ taskPc'[t] \notin {"lock", "connecting"})
             => (taskPc'[t] = "idle" /\ batterySent' = batterySent + 1)
          /\ (taskPc[t] = "idle" /\ taskPc'[t] = "idle" /\ taskQ[t] # <<>>
                /\ taskQ'[t] = Tail(taskQ[t]) /\ Head(taskQ[t]).len_ok)
             => batterySent' = batterySent + 1]_vars

\* ---- helpers of the registry claims ----
\* The sessions of device d whose tasks are running.
SessionsOf(owner, d) == {i \in 1..Len(owner) : owner[i] = d}

\* C19: the registry holds at most one live session per device, and after an
\* OS link-down event for a device it no longer contains a session for that
\* device.
C19_RemovedOnLinkDown ==
    [][\A d \in Devices :
          /\ Cardinality(SessionsOf(sessionOwner', d)) <= 1
          /\ (osConnected[d] /\ ~osConnected'[d]) => device_managers'[d] = 0]_vars

\* C20: a second link-up event for a device that already has a registered
\* session keeps that session: the session in the registry is not replaced by
\* a newly built one and no second set of session tasks is started.
C20_SecondLinkUpKeepsSession ==
    [][\A d \in Devices :
          (device_managers[d] # 0 /\ device_managers'[d] # 0)
             => /\ device_managers'[d] = device_managers[d]
                /\ SessionsOf(sessionOwner', d) = SessionsOf(sessionOwner, d)]_vars

\* C21: the command dispatcher never terminates: whatever the lookup and the
\* send return, the task is back at its receive, it takes the commands in
\* the order they were queued, and each is sent on the session registered
\* for its device or dropped when there is none.
C21_DispatcherNeverTerminates ==
    [][/\ dispatcherPc' = "recv"
       /\ cmdHandled' # cmdHandled =>
             /\ cmdLast'.mac = Head(cmdChan).mac
             /\ cmdLast'.before = cmdLast.outcome
             /\ cmdChan' = Tail(cmdChan)
             /\ (cmdLast'.outcome \in {"sent", "send_failed"})
                   <=> (cmdLast'.mac \in Devices /\ device_managers[cmdLast'.mac] # 0)
             /\ cmdLast'.session # 0 => cmdLast'.session = device_managers[cmdLast'.mac]
       /\ cmdChan # <<>> => ENABLED (\E ok \in BOOLEAN : CmdDispatch(ok))]_vars

\* A send failure, then a command that is sent.
C21_Witness ==
    /\ cmdHandled = 2 /\ cmdLast.before = "send_failed" /\ cmdLast.outcome = "sent"

\* The key under which the snapshot is meant to keep one event: the device,
\* the event type, the AACP variant and the control-command identifier.
SnapKey(e) == <<e.type, e.mac, e.variant, e.id>>

\* C22: the snapshot is a latest-wins projection: it never holds two events
\* of the same device and kind, so its length is bounded by the number of
\* devices and kinds, not by the number of events processed.
C22_SnapshotLatestWins ==
    \A i, j \in 1..Len(snapshot) :
        SnapKey(snapshot[i]) = SnapKey(snapshot[j]) => i = j

\* The events of the snapshot that do not refer to mac, in order.
OthersOf(snap, mac) == SelectSeq(snap, LAMBDA e : e.mac # mac)

\* C23: after update_snapshot processed DeviceDisconnected(mac) the snapshot
\* holds no event of mac, and the events of the other devices and the
\* AudioUnavailable flag are the same as before, in the same order.
C23_DisconnectPurges ==
    [][snapDone'.type = "DeviceDisconnected" =>
          /\ \A i \in 1..Len(snapshot') : snapshot'[i].mac # snapDone'.mac
          /\ snapshot' = OthersOf(snapshot, snapDone'.mac)]_vars

\* A device with a connection, a battery and an ear-detection event is
\* purged while the other device's event and the flag stay.
C23_Witness ==
    /\ snapDone = [type |-> "DeviceDisconnected", mac |-> "d1"]
    /\ Len(snapshot) = 2
    /\ snapshot[1].mac = "d2" /\ snapshot[2].type = "AudioUnavailable"

\* The streamed events are written in broadcast order and none of them was
\* broadcast before the client subscribed.
StreamInOrder ==
    /\ \A i \in 1..Len(clStream) : clStream[i] > acceptedAt
    /\ \A i, j \in 1..Len(clStream) : i < j => clStream[i] < clStream[j]

\* The replay is complete before the first streamed event, and a step of the
\* forwarding task leaves the connection open.
ReplayThenStream ==
    /\ (ipcPc = "replay" /\ ipcPc' = "stream") => clSnapIdx = Len(snapshot)
    /\ clStream' # clStream => (ipcPc = "stream" \/ clStream' = <<>>)
    /\ clSkipped' > clSkipped => ipcPc' = "stream"

\* C24 as stated: the snapshot is written first, then every event broadcast
\* after the client was accepted, in broadcast order and without a gap.
C24_ReplayThenEveryEvent ==
    [][/\ ReplayThenStream
       /\ StreamInOrder'
       /\ \A i \in 1..Len(clStream') : clStream'[i] = acceptedAt' + i]_vars

\* C24: the snapshot is written first, then the events broadcast after the
\* client was accepted, in broadcast order; every event the receiver has
\* passed was either written or counted in a logged overrun, and an overrun
\* leaves the connection open.
C24_ReplayThenStream ==
    [][/\ ReplayThenStream
       /\ StreamInOrder'
       /\ ipcPc' = "stream" =>
             Len(clStream') + clSkipped' = rxPos' - acceptedAt' - 1]_vars

\* An overrun was logged and a later event was written.
C24_Witness ==
    /\ ipcPc = "stream" /\ clSnapIdx = 2 /\ clSkipped = 1
    /\ clStream = <<2, 3>> /\ acceptedAt = 0

\* C25: every A2DP activation that sets the card profile sets it to the first
\* profile of the priority order that the card offers at that time, and the
\* card index, once found, is kept.
C25_FirstAvailableProfile ==
    [][/\ \A i \in 1..Len(io') :
             (io'[i].m = "set_card_profile" /\ io'[i].p # "off")
                => io'[i].p = FirstAvailable(1, availProfiles)
       /\ device_index => device_index']_vars

\* The calls of a step include an A2DP activation; they set an A2DP profile.
ActivationRan(calls) == \E i \in 1..Len(calls) : calls[i].m = "activate_a2dp_profile"

ProfileSet(calls) ==
    \E i \in 1..Len(calls) : calls[i].m = "set_card_profile" /\ calls[i].p # "off"

\* C26: an activation that finds no A2DP profile and whose audio-server
\* restart does not bring one returns without setting a profile, and
\* AudioUnavailable is then on the event bus exactly once.
C26_AudioUnavailableOnce ==
    [][(/\ ActivationRan(io')
        /\ device_index'
        /\ ~is_a2dp_profile_available(availProfiles))
          => /\ ~ProfileSet(io')
             /\ ~stateDead'
             /\ Cardinality({i \in 1..Len(appQ') : appQ'[i].ev = "AudioUnavailable"}) = 1]_vars

\* The six bytes of the address in wire order, read off the address string
\* (most significant byte first, two hex digits per byte).
WireBytes(addr) == [i \in 1..Len(addr) |-> addr[Len(addr) + 1 - i][1] * 16
                                            + addr[Len(addr) + 1 - i][2]]

\* C28: for a six-byte address verify_rpa returns true exactly when the first
\* three bytes in wire order are ah(irk, last three bytes); so the address
\* reverse(ah(irk, prand) || prand) is accepted for every irk and prand, and
\* an address with other hash bytes is rejected.
C28_VerifyRpa ==
    (rpaDone /\ Len(rpaAddr) = 6) =>
        LET b == WireBytes(rpaAddr)
            prand == SubSeq(b, 4, 6)
        IN /\ rpaResult = (SubSeq(b, 1, 3) = ah(rpaIrk, prand))
           /\ rpaResult = (b = ah(rpaIrk, prand) \o prand)

\* An address generated from the stored key is accepted.
C28_Witness ==
    /\ rpaDone /\ rpaResult
    /\ rpaAddr = DeviceAddr(rpaIrk, <<77, 0, 77>>, 0)

\* C27: whenever paused_by_us changes, every service in it is not a kdeconnect
\* service, reported Playing when the step began, and was sent a Pause that
\* succeeded in that step.
C27_PausedByUsWerePlaying ==
    [][paused_by_app_services' # paused_by_app_services =>
          \A p \in paused_by_app_services' :
             /\ ~is_kdeconnect_service(p)
             /\ playerStatus[p] = "Playing"
             /\ \E i \in 1..Len(io') : io'[i] = [m |-> "Pause", p |-> p, ok |-> TRUE]]_vars

\* An ear-detection event recorded spotify while the kdeconnect service,
\* also Playing, was left out.
C27_Witness ==
    /\ lastStep = "EarDetection"
    /\ paused_by_app_services = {"spotify"}
    /\ playerStatus["kdeconnect.mpris_phone"] = "Playing"
    /\ playerStatus["spotify"] = "Paused"
    /\ \E i \in 1..Len(io) : io[i].m = "Pause" /\ io[i].ok
    /\ earStatus = <<"OutOfEar", "OutOfEar">>

\* C29: activate_a2dp_profile always returns: no task is left waiting for
\* the coordinator state lock that it holds itself.
C29_ActivationReturns == ~stateDead /\ pollPc # "hung"

\* C30: the coordinator state is written by one task at a time: between the
\* poll loop's sample of the players and its store of is_playing no handler
\* writes is_playing or paused_by_us.
C30_SingleOwner ==
    [][(pollPc = "sampled" /\ pollPc' = "sampled") =>
          /\ is_playing' = is_playing
          /\ paused_by_app_services' = paused_by_app_services]_vars

\* C31: a link-down tears the session down: from the link-down step on no
\* session task of the device is running, and the dispatcher sends no
\* command on a session of a device that is down.
C31_TeardownCancelsTasks ==
    [][\A d \in Devices :
          /\ (osConnected[d] /\ ~osConnected'[d]) => SessionsOf(sessionOwner', d) = {}
          /\ (routedTo' # routedTo /\ routedTo' # 0 /\ sessionOwner[routedTo'] = d)
                => osConnected[d]]_vars

\* C32: once the link is closed a new read or write fails at once with a
\* not-connected error and queues nothing, and a caller that was waiting
\* for its response is resolved by the response or by a link-closed error,
\* not by the response timeout.
C32_LinkClosedResolves ==
    [][\A c \in Callers :
          /\ (~attSender /\ callPc[c] = "idle" /\ nReq' > nReq /\ callReq'[c] = callReq[c]
                /\ lastResult'[c] # lastResult[c])
                => (lastResult'[c].kind = "not_connected" /\ sendChan' = sendChan)
          /\ (~attSender /\ callPc[c] = "waiting" /\ callPc'[c] = "idle")
                => lastResult'[c].kind \in {"response", "link_closed"}]_vars

\* C33: a malformed inbound packet is not fatal: the receive loop is
\* running as long as the link is open.
C33_MalformedNotFatal == attSender => ~recvPanicked

\* C34: the registry lock is held for lookups and insertions only: no read
\* guard is held while the dispatcher awaits a send, and no write guard
\* while a session is being connected.
C34_LockShortSections ==
    /\ dispatcherPc = "sending" => regReaders = 0
    /\ nothingPc = "connecting" => ~regWriter

\* C35: at any time at most one property-stream task consumes the events of
\* a verified address.
C35_OneStreamPerAddress ==
    \A a \in verified_macs :
        Cardinality({t \in 1..nTasks : taskAddr[t] = a /\ taskPc[t] # "exited"}) <= 1

\* C36: the coordinator handlers of the event loop and of the OwnsConnection
\* task exclude each other: at most one of them is between its first and
\* its last call on the coordinator, and it holds the coordinator's lock.
C36_HandlersExclusive ==
    /\ Cardinality({t \in MxTasks : mxPc[t] = "run"}) <= 1
    /\ \A t \in MxTasks : mxPc[t] = "run" => mxLock = t

\* A loss of ownership is half handled by one task while the other task
\* has received an event and waits for the coordinator.
C36_Witness ==
    \E t \in MxTasks, u \in MxTasks :
        /\ t # u
        /\ mxPc[t] = "run" /\ mxLeft[t] = 1 /\ HandlerSteps(mxEv[t]) = 2
        /\ mxPc[u] = "lock"

\* C37: a device whose last processed link event is DeviceDisconnected is in
\* neither devices nor device_order, and the two always hold the same MACs,
\* each once.
C37_ListedOnlyWhileConnected ==
    /\ \A m \in CmdMacs :
          appLink[m] = "down" =>
              /\ devices[m] = "absent"
              /\ \A i \in 1..Len(device_order) : device_order[i] # m
    /\ {device_order[i] : i \in 1..Len(device_order)} = {m \in CmdMacs : devices[m] # "absent"}
    /\ \A i, j \in 1..Len(device_order) : device_order[i] = device_order[j] => i = j

\* C38: the values a session emitted before its DeviceConnected event stay
\* in the snapshot: when DeviceConnected(mac) is processed for a new link
\* (the snapshot holds no DeviceConnected of mac), every AACP event of mac
\* that the snapshot held is still in it.
C38_HandshakeValuesReplayed ==
    [][(/\ snapDone'.type = "DeviceConnected"
        /\ \A i \in 1..Len(snapshot) :
              ~(snapshot[i].type = "DeviceConnected" /\ snapshot[i].mac = snapDone'.mac))
          => \A i \in 1..Len(snapshot) :
                (snapshot[i].type = "AACPEvent" /\ snapshot[i].mac = snapDone'.mac)
                   => \E j \in 1..Len(snapshot') : snapshot'[j] = snapshot[i]]_vars

\* C39: toggles round-trip: after the device echoed the byte sent for the
\* user's choice, the toggle's decoded value is the user's choice.
C39_ToggleRoundTrip ==
    (setPc = "echoed" /\ setCmd \in Toggles) => setOn = setChoice

\* C40: a Left or Right key on a slider sends a value inside the slider's
\* range and the addition does not overflow the u8.
C40_SliderInRange ==
    (setPc \in {"sent", "panicked"} /\ setCmd \in Sliders) =>
        /\ ~setOverflow
        /\ SliderRange(setCmd).min <= setSent
        /\ setSent <= SliderRange(setCmd).max

====
